---- MODULE Spec2Model ----
(***************************************************************************)
(* Model of the mentorship checklist -> XLSForm compiler:                  *)
(*   - the expression algebra and its XPath rendering                      *)
(*     (lib/xls_forms/expressions),                                        *)
(*   - the scoring-rule listener and the rule fold (lib/antlr4),           *)
(*   - the question / section / checklist lowering                         *)
(*     (lib/serializers/xls_form).                                         *)
(***************************************************************************)
EXTENDS Integers, Sequences, FiniteSets, TLC

(***************************************************************************)
(* Bounds of the model.                                                    *)
(***************************************************************************)
\* Greatest number of ';'-separated rules in one scoring string.
MaxRules == 3

(***************************************************************************)
(* EXPRESSION ALGEBRA.  Every expression is a node                         *)
(*   [k |-> class name, s |-> text payload, n |-> numeric payload,         *)
(*    a |-> <<operands>>].                                                 *)
(* Python's None and a raised exception are nodes of their own.            *)
(***************************************************************************)
Node(k, s, n, a) == [k |-> k, s |-> s, n |-> n, a |-> a]

None == Node("None", "", 0, <<>>)

\* The value of a call that raised the exception class `cls`.
Raise(cls) == Node("raise", cls, 0, <<>>)

IsRaise(e) == e.k = "raise"

\* First raised exception among the operands, evaluated left to right.
FirstRaise(args) ==
    LET bad == {i \in 1..Len(args) : IsRaise(args[i])}
    IN  args[CHOOSE i \in bad : \A j \in bad : i <= j]

AnyRaise(args) == \E i \in 1..Len(args) : IsRaise(args[i])

\* ----- literals ----------------------------------------------------------
bool_(b) == Node("Boolean", IF b THEN "True" ELSE "False", 0, <<>>)

int_(n) == Node("Int", "int", n, <<>>)

\* num(x): `s` records whether the Python value is a float or an int.
num(pytype, n) == Node("Number", pytype, n, <<>>)

str_(s) == Node("String", s, 0, <<>>)

ONE == int_(1)

FALSE_ == bool_(FALSE)

THREE == num("int", 3)

TRUE_ == bool_(TRUE)

TWO == int_(2)

ZERO == int_(0)

\* ----- references and grouping -------------------------------------------
var(question_name) == Node("Variable", question_name, 0, <<>>)

brkt(expr) == Node("Brackets", "", 0, <<expr>>)

\* ----- class hierarchy (marker interfaces) -------------------------------
BoolExprClasses ==
    {"Boolean", "And", "Or", "Eq", "Ge", "Gt", "Le", "Lt", "Ne",
     "BooleanF", "Coalesce", "Not"}

IsBoolExpr(e) == e.k \in BoolExprClasses

IsExpr(e) == e.k \notin {"None", "raise"}

\* NumberExpr and TextExpr with their subclasses; Coalesce is of every kind,
\* Variable of none.
NumberExprClasses ==
    {"Int", "Number", "Brackets", "Add", "Divide", "Multiply", "Subtract",
     "Round", "IntF", "NumberF", "Coalesce"}

TextExprClasses == {"String", "Coalesce"}

IsNumberExpr(e) == e.k \in NumberExprClasses

IsTextExpr(e) == e.k \in TextExprClasses

\* ----- operators ----------------------------------------------------------
\* BiOperator with the operand kinds of the subclasses' annotations checked
\* when the node is built.
BiOperator_KindChecked(cls, operator, left_operand, right_operand) ==
    IF AnyRaise(<<left_operand, right_operand>>)
    THEN FirstRaise(<<left_operand, right_operand>>)
    ELSE IF left_operand = None \/ right_operand = None
    THEN Raise("ValueError")
    ELSE IF \/ cls \in {"And", "Or"}
               /\ ~(IsBoolExpr(left_operand) /\ IsBoolExpr(right_operand))
            \/ cls \in {"Add", "Divide", "Multiply", "Subtract",
                        "Ge", "Gt", "Le", "Lt"}
               /\ ~(IsNumberExpr(left_operand) /\ IsNumberExpr(right_operand))
    THEN Raise("TypeError")
    ELSE Node(cls, operator, 0, <<left_operand, right_operand>>)

\* BiOperator subclasses: the constructors carry no validators;
\* __attrs_post_init__ only refuses None.
BiOperator(cls, operator, left_operand, right_operand) ==
    IF AnyRaise(<<left_operand, right_operand>>)
    THEN FirstRaise(<<left_operand, right_operand>>)
    ELSE IF left_operand = None \/ right_operand = None
    THEN Raise("ValueError")
    ELSE Node(cls, operator, 0, <<left_operand, right_operand>>)

add(l, r) == BiOperator("Add", " + ", l, r)

div(l, r) == BiOperator("Divide", " div ", l, r)

mul(l, r) == BiOperator("Multiply", " * ", l, r)

sub(l, r) == BiOperator("Subtract", " - ", l, r)

and_(l, r) == BiOperator("And", " and ", l, r)

or_(l, r) == BiOperator("Or", " or ", l, r)

eq(l, r) == BiOperator("Eq", " = ", l, r)

ge(l, r) == BiOperator("Ge", " >= ", l, r)

gt(l, r) == BiOperator("Gt", " > ", l, r)

le(l, r) == BiOperator("Le", " <= ", l, r)

lt(l, r) == BiOperator("Lt", " < ", l, r)

ne(l, r) == BiOperator("Ne", " != ", l, r)

\* ----- functions ----------------------------------------------------------
\* A select that can be constructed and is a boolean expression: the
\* comparison of the answer with the option.
select_AsComparison(space_delimited_array, string) ==
    IF AnyRaise(<<space_delimited_array, string>>)
    THEN FirstRaise(<<space_delimited_array, string>>)
    ELSE eq(space_delimited_array, string)

\* Select is declared without the attrs decorator: the class has no
\* generated __init__, so calling it with arguments raises TypeError.
select(space_delimited_array, string) ==
    IF AnyRaise(<<space_delimited_array, string>>)
    THEN FirstRaise(<<space_delimited_array, string>>)
    ELSE Raise("TypeError")

\* If: all three fields are validated.
if_(condition, then, else_) ==
    IF AnyRaise(<<condition, then, else_>>)
    THEN FirstRaise(<<condition, then, else_>>)
    ELSE IF ~IsBoolExpr(condition) \/ ~IsExpr(then) \/ ~IsExpr(else_)
    THEN Raise("TypeError")
    ELSE Node("If", "", 0, <<condition, then, else_>>)

intf(number_) ==
    IF IsRaise(number_) THEN number_
    ELSE Node("IntF", "", 0, <<number_>>)

number(expr) ==
    IF IsRaise(expr) THEN expr
    ELSE Node("NumberF", "", 0, <<expr>>)

round_(number_, places) ==
    IF AnyRaise(<<number_, places>>) THEN FirstRaise(<<number_, places>>)
    ELSE Node("Round", "", 0, <<number_, places>>)

\* Coalesce: both arguments are validated to be expressions.
coalesce(arg1, arg2) ==
    IF AnyRaise(<<arg1, arg2>>) THEN FirstRaise(<<arg1, arg2>>)
    ELSE IF ~IsExpr(arg1) \/ ~IsExpr(arg2) THEN Raise("TypeError")
    ELSE Node("Coalesce", "", 0, <<arg1, arg2>>)

\* BoolExpr.__invert__ / not_: the argument must be a BoolExpr.
not_(arg) ==
    IF IsRaise(arg) THEN arg
    ELSE IF ~IsBoolExpr(arg) THEN Raise("TypeError")
    ELSE Node("Not", "", 0, <<arg>>)

\* count_selected and string are exported by the expressions package but
\* their classes are not part of functions.py.
count_selected(expr) ==
    IF IsRaise(expr) THEN expr
    ELSE Node("CountSelected", "", 0, <<expr>>)

string(expr) ==
    IF IsRaise(expr) THEN expr
    ELSE Node("StringF", "", 0, <<expr>>)

\* ----- rendering ----------------------------------------------------------
\* str() of a Python number: floats keep their fractional part.
PyNumberStr(pytype, n) ==
    IF pytype = "float" THEN ToString(n) \o ".0" ELSE ToString(n)

\* attrs-generated __repr__ of a node (what str() of a node falls back to).
RECURSIVE Repr(_)
Repr(e) ==
    CASE e.k = "Number" -> "Number(value=" \o PyNumberStr(e.s, e.n) \o ")"
      [] e.k = "Int" -> "Int(value=" \o ToString(e.n) \o ")"
      [] e.k = "String" -> "String(value='" \o e.s \o "')"
      [] e.k = "Boolean" -> "Boolean(value=" \o e.s \o ")"
      [] e.k = "Variable" -> "Variable(question_name='" \o e.s \o "')"
      [] e.k = "Brackets" -> "Brackets(expr=" \o Repr(e.a[1]) \o ")"
      [] e.k = "NumberF" -> "NumberF(expr=" \o Repr(e.a[1]) \o ")"
      [] e.k = "IntF" -> "IntF(number=" \o Repr(e.a[1]) \o ")"
      [] e.k = "Not" -> "Not(arg=" \o Repr(e.a[1]) \o ")"
      [] e.k = "CountSelected" -> "CountSelected(expr=" \o Repr(e.a[1]) \o ")"
      [] e.k = "StringF" -> "StringF(expr=" \o Repr(e.a[1]) \o ")"
      [] e.k = "Coalesce" ->
            "Coalesce(arg1=" \o Repr(e.a[1]) \o ", arg2=" \o Repr(e.a[2]) \o ")"
      [] e.k = "Round" ->
            "Round(number=" \o Repr(e.a[1]) \o ", places=" \o Repr(e.a[2]) \o ")"
      [] e.k = "If" ->
            "If(condition=" \o Repr(e.a[1]) \o ", then=" \o Repr(e.a[2])
                \o ", else_=" \o Repr(e.a[3]) \o ")"
      [] OTHER ->
            e.k \o "(operator='" \o e.s \o "', left_operand=" \o Repr(e.a[1])
                \o ", right_operand=" \o Repr(e.a[2]) \o ")"

\* eval(expression): the XPath text of an expression.
RECURSIVE eval(_)
eval(e) ==
    CASE e.k = "Number" -> PyNumberStr(e.s, e.n)
      [] e.k = "Int" -> ToString(e.n)
      [] e.k = "String" -> "'" \o e.s \o "'"
      [] e.k = "Boolean" -> IF e.s = "True" THEN "yes" ELSE "no"
      [] e.k = "Variable" -> "${" \o e.s \o "}"
      [] e.k = "Brackets" -> "(" \o eval(e.a[1]) \o ")"
      [] e.k = "NumberF" -> "number(" \o eval(e.a[1]) \o ")"
      \* IntF formats its operand with str(), not with eval().
      [] e.k = "IntF" -> "int(" \o Repr(e.a[1]) \o ")"
      [] e.k = "Not" -> "not(" \o eval(e.a[1]) \o ")"
      [] e.k = "CountSelected" -> "count-selected(" \o eval(e.a[1]) \o ")"
      [] e.k = "StringF" -> eval(e.a[1])
      [] e.k = "Coalesce" ->
            "coalesce(" \o eval(e.a[1]) \o ", " \o eval(e.a[2]) \o ")"
      [] e.k = "Round" ->
            "round(" \o eval(e.a[1]) \o ", " \o eval(e.a[2]) \o ")"
      [] e.k = "If" ->
            "if(" \o eval(e.a[1]) \o ", " \o eval(e.a[2]) \o ", "
                \o eval(e.a[3]) \o ")"
      [] OTHER -> eval(e.a[1]) \o e.s \o eval(e.a[2])

(***************************************************************************)
(* DOMAIN MODEL (core/domain.py).                                          *)
(***************************************************************************)
QuestionType ==
    {"BOOL", "CHOICE", "COUNT", "DEN", "MULTI", "NUM", "PERC", "RATE",
     "SELECT", "TEXT"}

\* A text (label, prompt, option, title) is a sequence of characters.
Str(text) == IF text = <<>> THEN "" ELSE
    LET RECURSIVE Join(_)
        Join(k) == IF k = 0 THEN "" ELSE Join(k - 1) \o text[k]
    IN  Join(Len(text))

\* Python's None for an optional text.
NoText == <<"None">>

\* A question.  `scoring_logic` is the scoring string as its ';'-separated
\* rules (empty when the question has none), `sub_questions` the values of
\* the ordered mapping, `options_set` the set of option texts and
\* `display_numbering` the ordinal (-1 for None).
Question(id, label, question_type, options_set, prompt, scoring_logic, sub_questions, na_option, display_numbering) ==
    [id |-> id, label |-> label, question_type |-> question_type,
     options_set |-> options_set, prompt |-> prompt,
     scoring_logic |-> scoring_logic, sub_questions |-> sub_questions,
     na_option |-> na_option, display_numbering |-> display_numbering]

(***************************************************************************)
(* SCORING RULES.  A rule is kept as its parse tree:                       *)
(*   form      which alternative of `scoring_logic` matched,               *)
(*   BOOLEAN   'Y' / 'N' of an if_bool rule,                               *)
(*   DIGITS    the count, the two range bounds, or the select indices,     *)
(*   terms     the comparison terms [CMP, DIGITS, PERCENT] in source order,*)
(*   ops       the 'and' / 'or' keywords between consecutive terms,        *)
(*   CEE_SCORE the score keyword.                                          *)
(* The tokens U+2265 and U+2264 are written "u2265" and "u2264".           *)
(***************************************************************************)
Rule(form, bool, digits, terms, ops, score) ==
    [form |-> form, BOOLEAN |-> bool, DIGITS |-> digits, terms |-> terms,
     ops |-> ops, CEE_SCORE |-> score]

\* "".split(";") is [""]: the empty scoring string is the string of one rule
\* without text.
EmptyRule == Rule("empty", "", <<>>, <<>>, <<>>, "")

\* `not question.scoring_logic`: None (no rule) or the empty string.
NoScoringLogic(q) == q.scoring_logic = <<>> \/ q.scoring_logic = <<EmptyRule>>

Term(cmp, digits, percent) ==
    [CMP |-> cmp, DIGITS |-> digits, PERCENT |-> percent]

\* A parse-tree context as the listener callbacks read it.
Ctx(bool, digits, cmp, percent, andor, score) ==
    [BOOLEAN |-> bool, DIGITS |-> digits, CMP |-> cmp, PERCENT |-> percent,
     ANDOR |-> andor, CEE_SCORE |-> score]

Event(ev, ctx) == [ev |-> ev, ctx |-> ctx]

RuleCtx(rule) == Ctx(rule.BOOLEAN, rule.DIGITS, "", FALSE, "", rule.CEE_SCORE)

LeafCtx(t) == Ctx("", <<t.DIGITS>>, t.CMP, t.PERCENT, "", "")

CompoundCtx(op) == Ctx("", <<>>, "", FALSE, op, "")

\* comparison_expression is left-recursive: the walker enters the compound
\* contexts outermost first, and each compound exits right after its right
\* operand.
RECURSIVE ComparisonEvents(_, _, _)
ComparisonEvents(terms, ops, n) ==
    IF n = 1
    THEN <<Event("enterComparison_expression", LeafCtx(terms[1])),
           Event("exitComparison_expression", LeafCtx(terms[1]))>>
    ELSE <<Event("enterComparison_expression", CompoundCtx(ops[n - 1]))>>
         \o ComparisonEvents(terms, ops, n - 1)
         \o <<Event("enterComparison_expression", LeafCtx(terms[n])),
              Event("exitComparison_expression", LeafCtx(terms[n])),
              Event("exitComparison_expression", CompoundCtx(ops[n - 1]))>>

SelectLeafCtx(d) == Ctx("", <<d>>, "", FALSE, "", "")

RECURSIVE SelectionEvents(_, _)
SelectionEvents(digits, n) ==
    IF n = 1
    THEN <<Event("enterSelection_expression", SelectLeafCtx(digits[1])),
           Event("exitSelection_expression", SelectLeafCtx(digits[1]))>>
    ELSE <<Event("enterSelection_expression", CompoundCtx("or"))>>
         \o SelectionEvents(digits, n - 1)
         \o <<Event("enterSelection_expression", SelectLeafCtx(digits[n])),
              Event("exitSelection_expression", SelectLeafCtx(digits[n])),
              Event("exitSelection_expression", CompoundCtx("or"))>>

\* ParseTreeWalker.walk: the callbacks the listener overrides, in walk order.
WalkEvents(rule) ==
    CASE rule.form = "if_bool" ->
            <<Event("enterIf_bool_literal_equals_score", RuleCtx(rule)),
              Event("exitIf_bool_literal_equals_score", RuleCtx(rule))>>
      [] rule.form = "if_count" ->
            <<Event("enterIf_count_equals_score", RuleCtx(rule)),
              Event("exitIf_count_equals_score", RuleCtx(rule))>>
      [] rule.form = "if_comparison" ->
            ComparisonEvents(rule.terms, rule.ops, Len(rule.terms))
            \o <<Event("exitIf_complex_equals_score", RuleCtx(rule))>>
      [] rule.form = "if_range" ->
            <<Event("enterIf_range_equals_score", RuleCtx(rule)),
              Event("enterRange_expression", RuleCtx(rule)),
              Event("exitRange_expression", RuleCtx(rule)),
              Event("exitIf_complex_equals_score", RuleCtx(rule))>>
      [] rule.form = "if_selection" ->
            <<Event("enterIf_selection_equals_score", RuleCtx(rule))>>
            \o SelectionEvents(rule.DIGITS, Len(rule.DIGITS))
            \o <<Event("exitIf_complex_equals_score", RuleCtx(rule))>>
      [] OTHER -> <<Event("syntaxError", RuleCtx(rule))>>

(***************************************************************************)
(* THE LISTENER (lib/antlr4/__init__.py).  Its state is                    *)
(*   _conditional_expr, _then_expr, _expr_cache                            *)
(* plus the exception a callback raised (`raised`, "" when none) and       *)
(* whether that exception's message names the question id (`names_id`).    *)
(***************************************************************************)
CEE_SCORE_GRAY == str_("gray")

CEE_SCORE_GREEN == str_("green")

CEE_SCORE_RED == str_("red")

CEE_SCORE_YELLOW == str_("yellow")

META_NO == str_("no")

META_YES == str_("yes")

\* ScoringLogicListener.of(question): the fields' defaults.
ScoringLogicListener ==
    [_conditional_expr |-> None, _then_expr |-> None, _expr_cache |-> <<>>,
     raised |-> "", names_id |-> FALSE]

Raising(l, cls, names_id) == [l EXCEPT !.raised = cls, !.names_id = names_id]

_meta_cee_score_to_xls_form(meta_cee_score) ==
    CASE meta_cee_score = "Gray" -> CEE_SCORE_GRAY
      [] meta_cee_score = "Green" -> CEE_SCORE_GREEN
      [] meta_cee_score = "Red" -> CEE_SCORE_RED
      [] meta_cee_score = "Yellow" -> CEE_SCORE_YELLOW
      [] OTHER -> Raise("ParseError")

\* build_select_option_name counting the options from zero.
build_select_option_name_ZeroBased(question_id, option_index) ==
    question_id \o "_" \o ToString(option_index - 1)

build_select_option_name(question_id, option_index) ==
    question_id \o "_" \o ToString(option_index)

\* _ensure_question_is_of_type accepting every kind.
_ensure_question_is_of_any_type(l, question, q_types, exc_factory) == l

\* _ensure_question_is_of_type(*q_types, message, exc_factory): the default
\* message and the '%' message both quote the question id.
_ensure_question_is_of_type(l, question, q_types, exc_factory) ==
    IF question.question_type \in q_types THEN l
    ELSE Raising(l, exc_factory, TRUE)

\* Stores a freshly built condition, or the exception its construction
\* raised (a TypeError from the expression classes quotes no question id).
SetCondition(l, expr) ==
    IF IsRaise(expr) THEN Raising(l, expr.s, FALSE)
    ELSE [l EXCEPT !._conditional_expr = expr]

enterIf_bool_literal_equals_score(l, question, ctx) ==
    _ensure_question_is_of_type(l, question, {"BOOL"}, "ParseError")

\* enterComparison_expression returning early as soon as an earlier term has
\* left a condition, whether or not the cache holds one.
enterComparison_expression_FirstTermOnly(l, question, ctx) ==
    IF l._conditional_expr # None THEN l
    ELSE IF ctx.PERCENT
    THEN _ensure_question_is_of_type(l, question, {"PERC"},
                                     "MetadataExpressionSyntaxError")
    ELSE l

enterComparison_expression(l, question, ctx) ==
    IF l._conditional_expr # None /\ l._expr_cache # <<>> THEN l
    ELSE IF ctx.PERCENT
    THEN _ensure_question_is_of_type(l, question, {"PERC"},
                                     "MetadataExpressionSyntaxError")
    ELSE l

enterIf_count_equals_score(l, question, ctx) ==
    _ensure_question_is_of_type(l, question, {"MULTI", "COUNT"}, "ParseError")

enterIf_range_equals_score(l, question, ctx) ==
    _ensure_question_is_of_type(l, question, {"MULTI"}, "ParseError")

enterIf_selection_equals_score(l, question, ctx) ==
    _ensure_question_is_of_type(l, question, {"SELECT"}, "ParseError")

enterRange_expression(l, question, ctx) ==
    _ensure_question_is_of_type(l, question, {"MULTI"}, "ParseError")

enterSelection_expression(l, question, ctx) ==
    _ensure_question_is_of_type(l, question, {"SELECT"}, "ParseError")

exitIf_bool_literal_equals_score(l, question, ctx) ==
    LET meta_bool == IF ctx.BOOLEAN = "Y" THEN META_NO ELSE META_YES
        meta_cee_score == _meta_cee_score_to_xls_form(ctx.CEE_SCORE)
        cond == not_(select(var(question.id), meta_bool))
    IN  IF IsRaise(meta_cee_score) THEN Raising(l, meta_cee_score.s, FALSE)
        ELSE IF IsRaise(cond) THEN Raising(l, cond.s, FALSE)
        ELSE [l EXCEPT !._conditional_expr = cond,
                       !._then_expr = meta_cee_score]

\* The else branch of exitComparison_expression: one comparison term.
ComparisonTerm(l, question, ctx) ==
    LET digits == num("float", ctx.DIGITS[1])
        question_expr == var(question.id)
        left_operand ==
            IF question.question_type = "MULTI"
            THEN count_selected(question_expr)
            ELSE IF question.question_type = "COUNT"
            THEN intf(number(question_expr))
            ELSE number(question_expr)
        right_operand ==
            IF question.question_type \in {"COUNT", "MULTI"}
            THEN intf(digits) ELSE digits
        cached ==
            IF l._conditional_expr # None
            THEN [l EXCEPT !._expr_cache = Append(@, l._conditional_expr)]
            ELSE l
    IN  \* _get_term_node_txt asserts the token is present.
        IF ctx.DIGITS = <<>> THEN Raising(l, "AssertionError", FALSE)
        \* next() over no comparison token.
        ELSE IF ctx.CMP = "" THEN Raising(cached, "StopIteration", FALSE)
        ELSE IF question.question_type = "PERC" /\ ~ctx.PERCENT
        THEN Raising(cached, "MetadataExpressionSyntaxError", TRUE)
        ELSE CASE ctx.CMP \in {">=", "u2265"} ->
                    SetCondition(cached, ge(left_operand, right_operand))
               [] ctx.CMP = ">" ->
                    SetCondition(cached, gt(left_operand, right_operand))
               [] ctx.CMP \in {"=<", "u2264"} ->
                    SetCondition(cached, le(left_operand, right_operand))
               [] ctx.CMP = "<" ->
                    SetCondition(cached, lt(left_operand, right_operand))
               [] OTHER -> Raising(cached, "ParseError", TRUE)

\* exitComparison_expression joining the cached (earlier) term on the left.
exitComparison_expression_SourceOrder(l, question, ctx) ==
    IF l._conditional_expr # None /\ l._expr_cache # <<>>
    THEN LET top == l._expr_cache[Len(l._expr_cache)]
             popped == SubSeq(l._expr_cache, 1, Len(l._expr_cache) - 1)
         IN  CASE ctx.ANDOR = "" -> Raising(l, "StopIteration", FALSE)
               [] ctx.ANDOR = "and" ->
                    [l EXCEPT !._conditional_expr = and_(top, @),
                              !._expr_cache = popped]
               [] ctx.ANDOR = "or" ->
                    [l EXCEPT !._conditional_expr = or_(top, @),
                              !._expr_cache = popped]
               [] OTHER -> Raising(l, "ParseError", TRUE)
    ELSE ComparisonTerm(l, question, ctx)

\* exitComparison_expression joining every compound with `and`.
exitComparison_expression_AlwaysAnd(l, question, ctx) ==
    IF l._conditional_expr # None /\ l._expr_cache # <<>>
    THEN LET top == l._expr_cache[Len(l._expr_cache)]
             popped == SubSeq(l._expr_cache, 1, Len(l._expr_cache) - 1)
         IN  CASE ctx.ANDOR = "" -> Raising(l, "StopIteration", FALSE)
               [] ctx.ANDOR \in {"and", "or"} ->
                    [l EXCEPT !._conditional_expr = and_(@, top),
                              !._expr_cache = popped]
               [] OTHER -> Raising(l, "ParseError", TRUE)
    ELSE ComparisonTerm(l, question, ctx)

\* The compound branch joins the condition of the later term (left) with the
\* cached condition of the earlier term (right).
exitComparison_expression(l, question, ctx) ==
    IF l._conditional_expr # None /\ l._expr_cache # <<>>
    THEN LET top == l._expr_cache[Len(l._expr_cache)]
             popped == SubSeq(l._expr_cache, 1, Len(l._expr_cache) - 1)
         IN  CASE ctx.ANDOR = "" -> Raising(l, "StopIteration", FALSE)
               [] ctx.ANDOR = "and" ->
                    [l EXCEPT !._conditional_expr = and_(@, top),
                              !._expr_cache = popped]
               [] ctx.ANDOR = "or" ->
                    [l EXCEPT !._conditional_expr = or_(@, top),
                              !._expr_cache = popped]
               [] OTHER -> Raising(l, "ParseError", TRUE)
    ELSE ComparisonTerm(l, question, ctx)

exitIf_count_equals_score(l, question, ctx) ==
    LET cee_score == _meta_cee_score_to_xls_form(ctx.CEE_SCORE)
        count == num("float", ctx.DIGITS[1])
        cond ==
            CASE question.question_type = "MULTI" ->
                    eq(count_selected(var(question.id)), count)
              [] question.question_type = "COUNT" ->
                    eq(number(coalesce(var(question.id), ZERO)), count)
              [] OTHER -> l._conditional_expr
    IN  IF IsRaise(cee_score) THEN Raising(l, cee_score.s, FALSE)
        ELSE [l EXCEPT !._conditional_expr = cond, !._then_expr = cee_score]

\* exitIf_comparison_equals_score, exitIf_range_equals_score and
\* exitIf_selection_equals_score all run _finalize_complex_expression.
_finalize_complex_expression(l, question, ctx) ==
    LET cee_score == _meta_cee_score_to_xls_form(ctx.CEE_SCORE)
    IN  IF l._conditional_expr = None
        THEN Raising(l, "AssertionError", FALSE)
        ELSE IF IsRaise(cee_score) THEN Raising(l, cee_score.s, FALSE)
        ELSE [l EXCEPT !._then_expr = cee_score]

\* exitRange_expression with each bound in brackets.
exitRange_expression_Bracketed(l, question, ctx) ==
    LET lower_bound == int_(ctx.DIGITS[1])
        upper_bound == int_(ctx.DIGITS[2])
        question_ == count_selected(var(question.id))
    IN  SetCondition(l, and_(brkt(ge(question_, lower_bound)),
                             brkt(le(question_, upper_bound))))

exitRange_expression(l, question, ctx) ==
    LET lower_bound == int_(ctx.DIGITS[1])
        upper_bound == int_(ctx.DIGITS[2])
        question_ == count_selected(var(question.id))
    IN  SetCondition(l, and_(ge(question_, lower_bound),
                             le(question_, upper_bound)))

exitSelection_expression(l, question, ctx) ==
    IF l._conditional_expr # None /\ l._expr_cache # <<>>
    THEN [l EXCEPT
            !._conditional_expr = or_(@, l._expr_cache[Len(l._expr_cache)]),
            !._expr_cache = SubSeq(@, 1, Len(@) - 1)]
    ELSE IF ctx.DIGITS = <<>> THEN Raising(l, "AssertionError", FALSE)
    ELSE LET option_name ==
                 str_(build_select_option_name(question.id, ctx.DIGITS[1]))
             cached ==
                 IF l._conditional_expr # None
                 THEN [l EXCEPT !._expr_cache = Append(@, l._conditional_expr)]
                 ELSE l
         IN  SetCondition(cached, select(var(question.id), option_name))

\* XLSFormErrorListener.syntaxError: the message quotes the question id.
syntaxError(l, question, ctx) == Raising(l, "ParseError", TRUE)

\* The callback the walker invokes for one event.
Callback(l, question, e) ==
    CASE e.ev = "enterIf_bool_literal_equals_score" ->
            enterIf_bool_literal_equals_score(l, question, e.ctx)
      [] e.ev = "exitIf_bool_literal_equals_score" ->
            exitIf_bool_literal_equals_score(l, question, e.ctx)
      [] e.ev = "enterComparison_expression" ->
            enterComparison_expression(l, question, e.ctx)
      [] e.ev = "exitComparison_expression" ->
            exitComparison_expression(l, question, e.ctx)
      [] e.ev = "enterIf_count_equals_score" ->
            enterIf_count_equals_score(l, question, e.ctx)
      [] e.ev = "exitIf_count_equals_score" ->
            exitIf_count_equals_score(l, question, e.ctx)
      [] e.ev = "enterIf_range_equals_score" ->
            enterIf_range_equals_score(l, question, e.ctx)
      [] e.ev = "enterIf_selection_equals_score" ->
            enterIf_selection_equals_score(l, question, e.ctx)
      [] e.ev = "enterRange_expression" ->
            enterRange_expression(l, question, e.ctx)
      [] e.ev = "exitRange_expression" ->
            exitRange_expression(l, question, e.ctx)
      [] e.ev = "enterSelection_expression" ->
            enterSelection_expression(l, question, e.ctx)
      [] e.ev = "exitSelection_expression" ->
            exitSelection_expression(l, question, e.ctx)
      [] e.ev = "exitIf_complex_equals_score" ->
            _finalize_complex_expression(l, question, e.ctx)
      [] OTHER -> syntaxError(l, question, e.ctx)

\* ScoringLogicListener.walk_results and the ListenerWalkResults validators.
walk_results(l) ==
    IF l._conditional_expr = None \/ l._then_expr = None
    THEN Raising(l, "AssertionError", FALSE)
    ELSE IF ~IsBoolExpr(l._conditional_expr) \/ ~IsExpr(l._then_expr)
    THEN Raising(l, "TypeError", FALSE)
    ELSE l

\* The walk of one rule from listener state l over the remaining events.
\* (The state after a callback is bound as a value, so that it is computed
\* once.)
RECURSIVE Walk(_, _, _)
Walk(l, question, events) ==
    IF l.raised # "" THEN l
    ELSE IF events = <<>> THEN walk_results(l)
    ELSE CHOOSE end \in {Walk(next, question, Tail(events)) :
                            next \in {Callback(l, question, Head(events))}} :
            TRUE

_scoring_logic_txt_to_expr(question, rule) ==
    Walk(ScoringLogicListener, question, WalkEvents(rule))


(***************************************************************************)
(* parse_question_scoring_logic (lib/antlr4/__init__.py).                  *)
(***************************************************************************)
\* A result: the value returned, or the exception raised and whether its
\* message names the question id.
Returned(value) == [value |-> value, raised |-> "", names_id |-> FALSE]

Raised(cls, names_id) == [value |-> None, raised |-> cls, names_id |-> names_id]

ListenerWalkResults(l) ==
    [conditional_expr |-> l._conditional_expr, then_expr |-> l._then_expr]

\* reduce(lambda _acc, _lwr: if_(_lwr.conditional_expr, _lwr.then_expr, _acc),
\*        reversed(expressions), initial): folds expressions[k], .., [1].
RECURSIVE ReduceRules(_, _, _)
ReduceRules(expressions, k, acc) ==
    IF k = 0 THEN acc
    ELSE ReduceRules(expressions, k - 1,
                     if_(expressions[k].conditional_expr,
                         expressions[k].then_expr, acc))

\* FoldScoringExpressions wrapping the then of the last rule in every rule,
\* the last one included, when no outer else is supplied.
FoldScoringExpressions_EveryRule(question, scoring_expressions, else_expr) ==
    LET n == Len(scoring_expressions)
    IN  IF else_expr = None /\ n < 2
        THEN Raised("AssertionError", TRUE)
        ELSE LET expr ==
                     IF else_expr # None
                     THEN ReduceRules(scoring_expressions, n, else_expr)
                     ELSE ReduceRules(scoring_expressions, n,
                                      scoring_expressions[n].then_expr)
             IN  IF IsRaise(expr) THEN Raised(expr.s, FALSE)
                 ELSE Returned(expr)

\* FoldScoringExpressions without the check on the number of rules.
FoldScoringExpressions_NoLengthCheck(question, scoring_expressions, else_expr) ==
    LET n == Len(scoring_expressions)
        expr ==
            IF else_expr # None
            THEN ReduceRules(scoring_expressions, n, else_expr)
            ELSE ReduceRules(scoring_expressions, n - 1,
                             scoring_expressions[n].then_expr)
    IN  IF IsRaise(expr) THEN Raised(expr.s, FALSE) ELSE Returned(expr)

\* The tail of parse_question_scoring_logic, once every rule is walked.
FoldScoringExpressions(question, scoring_expressions, else_expr) ==
    LET n == Len(scoring_expressions)
    IN  IF else_expr = None /\ n < 2
        THEN Raised("AssertionError", TRUE)
        ELSE LET expr ==
                     IF else_expr # None
                     THEN ReduceRules(scoring_expressions, n, else_expr)
                     ELSE ReduceRules(scoring_expressions, n - 1,
                                      scoring_expressions[n].then_expr)
             IN  IF IsRaise(expr) THEN Raised(expr.s, FALSE)
                 ELSE Returned(expr)

\* tuple(_scoring_logic_txt_to_expr(question, rule) for rule in rules):
\* the walks of rules[i..], stopping at the first exception.
RECURSIVE WalkRules(_, _, _, _)
WalkRules(question, rules, i, acc) ==
    IF i > Len(rules) THEN [expressions |-> acc, raised |-> "", names_id |-> FALSE]
    ELSE CHOOSE w \in
            {IF l.raised # ""
             THEN [expressions |-> acc, raised |-> l.raised,
                   names_id |-> l.names_id]
             ELSE WalkRules(question, rules, i + 1,
                            Append(acc, ListenerWalkResults(l))) :
                l \in {_scoring_logic_txt_to_expr(question, rules[i])}} : TRUE

parse_question_scoring_logic(question, else_expr) ==
    IF NoScoringLogic(question) THEN Returned(None)
    ELSE CHOOSE r \in
            {IF w.raised # "" THEN Raised(w.raised, w.names_id)
             ELSE FoldScoringExpressions(question, w.expressions, else_expr) :
                w \in {WalkRules(question, question.scoring_logic, 1, <<>>)}} :
            TRUE


(***************************************************************************)
(* XLSFORM ROWS (lib/xls_forms/core.py).  None cells are empty strings.    *)
(***************************************************************************)
XLSFormRecord(type, appearance, calculation, default, hint, label, name, relevant) ==
    [type |-> type, appearance |-> appearance, calculation |-> calculation,
     default |-> default, hint |-> hint, label |-> label, name |-> name,
     relevant |-> relevant]

\* A row of the choices sheet; "" in county, sub_county or ward is None.
OrgUnitChoice(label, list_name, name, county, sub_county, ward) ==
    [label |-> label, list_name |-> list_name, name |-> name,
     county |-> county, sub_county |-> sub_county, ward |-> ward]

XLSFormChoice(label, list_name, name) ==
    OrgUnitChoice(label, list_name, name, "", "", "")

begin_group(appearance, hint, label, name, relevant) ==
    XLSFormRecord("begin_group", appearance, "", "", hint, label, name,
                  relevant)

begin_field_list(label, name) == begin_group("field-list", "", label, name, "")

end_group == XLSFormRecord("end_group", "", "", "", "", "", "", "")

of_note(label, name, calculation, hint) ==
    XLSFormRecord("note", "", calculation, "", hint, label, name, "")

of_positive_integer(hint, name, label, relevant) ==
    XLSFormRecord("integer", "", "", "", hint, label, name, relevant)

of_select_multiple(list_name, hint, label, name, relevant) ==
    XLSFormRecord("select_multiple " \o list_name, "", "", "", hint, label,
                  name, relevant)

of_select_one(list_name, appearance, calculation, default, hint, label, name, relevant) ==
    XLSFormRecord("select_one " \o list_name, appearance, calculation, default,
                  hint, label, name, relevant)

of_trigger(name) ==
    XLSFormRecord("trigger", "horizontal", "", "", "", "Not Applicable?", name,
                  "")

\* An XLSFormItem, or the exception raised while building it.
XLSFormItem(records, choices) ==
    [records |-> records, choices |-> choices, raised |-> "",
     names_id |-> FALSE]

RaisedItem(cls, names_id) ==
    [records |-> <<>>, choices |-> <<>>, raised |-> cls, names_id |-> names_id]

(***************************************************************************)
(* QUESTION LOWERING (lib/serializers/xls_form/__init__.py).               *)
(***************************************************************************)
_RELEVANCE_QUESTION_LABEL == "Is the question below applicable?"

_get_question_int_score_record_id(question) == question.id \o "_INT_SCORE"

_get_question_max_score_record_id(question) == question.id \o "_MAX_SCORE"

_get_question_relevance_record_id(question) == question.id \o "_RELEVANCE"

_get_question_score_record_id(question) == question.id \o "_SCORE"

\* text.replace(old, new) for a one-character `old`.
Replace(text, old, new) ==
    LET RECURSIVE Rep(_)
        Rep(k) == IF k = 0 THEN <<>>
                  ELSE Rep(k - 1) \o (IF text[k] = old THEN new ELSE <<text[k]>>)
    IN  Rep(Len(text))

\* escape_markdown leaving '#' as it is.
escape_markdown_KeepHash(text) ==
    Replace(Replace(text, "_", <<"\\", "_">>), "*", <<"\\", "*">>)

escape_markdown(text) ==
    Replace(Replace(Replace(text, "_", <<"\\", "_">>), "*", <<"\\", "*">>),
            "#", <<"\\", "#">>)

_create_question_int_score_record(question) ==
    LET q_value == string(var(_get_question_score_record_id(question)))
        score_expr ==
            if_(eq(q_value, str_("green")), THREE,
                if_(eq(q_value, str_("yellow")), TWO,
                    if_(eq(q_value, str_("red")), ONE, ZERO)))
    IN  XLSFormRecord("calculate", "", eval(score_expr), "0", "", "",
                      _get_question_int_score_record_id(question), "")

\* _create_question_max_score_record without the case for na_option.
_create_question_max_score_record_NoGate(question) ==
    XLSFormRecord("calculate", "",
                  IF question.scoring_logic # <<>> THEN "3" ELSE "0", "0", "",
                  "", _get_question_max_score_record_id(question), "")

_create_question_max_score_record(question) ==
    LET q_value == string(var(_get_question_relevance_record_id(question)))
        max_score ==
            IF question.scoring_logic # <<>> /\ question.na_option
            THEN eval(if_(eq(q_value, str_("yes")), THREE, ZERO))
            ELSE IF question.scoring_logic # <<>> THEN "3"
            ELSE "0"
    IN  XLSFormRecord("calculate", "", max_score, "0", "", "",
                      _get_question_max_score_record_id(question), "")

_create_question_relevance_record(question) ==
    LET label ==
            IF question.display_numbering # -1
            THEN ToString(question.display_numbering) \o ". "
                 \o _RELEVANCE_QUESTION_LABEL
            ELSE _RELEVANCE_QUESTION_LABEL
    IN  of_select_one("yes_no", "columns-pack", "", "yes",
                      "Select 'No' to skip to the next question.", label,
                      _get_question_relevance_record_id(question),
                      IF question.na_option THEN "yes" ELSE "no")

\* _create_question_score_record, given what
\* parse_question_scoring_logic(question, None) returned.
_create_question_score_record(question, score_expr) ==
    XLSFormRecord("calculate", "",
                  IF score_expr # None THEN eval(score_expr) ELSE "gray",
                  "gray", "", "", _get_question_score_record_id(question), "")

_create_question_label(question) ==
    LET question_label == Str(escape_markdown(question.label))
    IN  IF ~question.na_option /\ question.display_numbering # -1
        THEN ToString(question.display_numbering) \o ". " \o question_label
        ELSE question_label

\* hint=escape_markdown(question.prompt) if question.prompt else None
PromptHint(question) ==
    IF question.prompt = NoText \/ question.prompt = <<>> THEN ""
    ELSE Str(escape_markdown(question.prompt))

_get_perc_question_calculation(num_id, den_id) ==
    LET q_num == number(coalesce(var(num_id), ZERO))
        q_den == number(coalesce(var(den_id), ONE))
    IN  eval(round_(mul(brkt(div(q_num, q_den)), int_(100)), int_(2)))

_get_question_relevance_calculation(question) ==
    LET short_circuit_value == IF question.na_option THEN FALSE_ ELSE TRUE_
    IN  eval(if_(short_circuit_value, TRUE_,
                 eq(string(var(_get_question_relevance_record_id(question))),
                    str_("yes"))))

\* ScoreRecords with the integer score record ahead of the score record.
ScoreRecords_IntScoreFirst(question, score_expr) ==
    <<_create_question_int_score_record(question),
      _create_question_score_record(question, score_expr),
      _create_question_max_score_record(question)>>

\* The three score records every question ends with.
ScoreRecords(question, score_expr) ==
    <<_create_question_score_record(question, score_expr),
      _create_question_int_score_record(question),
      _create_question_max_score_record(question)>>

\* The shape shared by the BOOL, COUNT, RATE and generic simple lowerings.
SimpleItem(question, body, score) ==
    IF score.raised # "" THEN RaisedItem(score.raised, score.names_id)
    ELSE XLSFormItem(<<_create_question_relevance_record(question), body>>
                     \o ScoreRecords(question, score.value), <<>>)

_serialize_bool_question(question, score) ==
    SimpleItem(question,
               of_select_one("yes_no", "columns-pack", "", "",
                             PromptHint(question),
                             _create_question_label(question), question.id,
                             _get_question_relevance_calculation(question)),
               score)

_serialize_count_question(question, score) ==
    SimpleItem(question,
               of_positive_integer(PromptHint(question), question.id,
                                   _create_question_label(question),
                                   _get_question_relevance_calculation(question)),
               score)

_serialize_generic_simple_question(question, score) ==
    SimpleItem(question,
               XLSFormRecord("text", "", "", "", PromptHint(question),
                             _create_question_label(question), question.id,
                             _get_question_relevance_calculation(question)),
               score)

_serialize_rate_question(question, score) ==
    SimpleItem(question,
               XLSFormRecord("decimal", "", "", "", PromptHint(question),
                             _create_question_label(question), question.id,
                             _get_question_relevance_calculation(question)),
               score)

\* _serialize_multi_question with the choices in reverse order.
_serialize_multi_question_Reversed(question, score) ==
    IF question.sub_questions = <<>> THEN RaisedItem("AssertionError", FALSE)
    ELSE IF score.raised # "" THEN RaisedItem(score.raised, score.names_id)
    ELSE LET n == Len(question.sub_questions)
         IN  XLSFormItem(
                <<_create_question_relevance_record(question),
                  of_select_multiple(question.id, PromptHint(question),
                                     _create_question_label(question),
                                     question.id,
                                     _get_question_relevance_calculation(question))>>
                \o ScoreRecords(question, score.value),
                [k \in 1..n |->
                    XLSFormChoice(
                        Str(escape_markdown(question.sub_questions[n + 1 - k].label)),
                        question.id, question.sub_questions[n + 1 - k].id)])

_serialize_multi_question(question, score) ==
    \* ensure_not_none(bool(..)) never fails; the assert does.
    IF question.sub_questions = <<>> THEN RaisedItem("AssertionError", FALSE)
    ELSE IF score.raised # "" THEN RaisedItem(score.raised, score.names_id)
    ELSE XLSFormItem(
            <<_create_question_relevance_record(question),
              of_select_multiple(question.id, PromptHint(question),
                                 _create_question_label(question), question.id,
                                 _get_question_relevance_calculation(question))>>
            \o ScoreRecords(question, score.value),
            [k \in 1..Len(question.sub_questions) |->
                XLSFormChoice(
                    Str(escape_markdown(question.sub_questions[k].label)),
                    question.id, question.sub_questions[k].id)])

\* next(filter(lambda _q: _q.question_type == t, sub_questions.values()))
FirstOfType(sub_questions, t) ==
    sub_questions[CHOOSE i \in 1..Len(sub_questions) :
                    /\ sub_questions[i].question_type = t
                    /\ \A j \in 1..(i - 1) : sub_questions[j].question_type # t]

_serialize_perc_question(question, score) ==
    IF question.sub_questions = <<>> THEN RaisedItem("ValueError", TRUE)
    ELSE IF Len(question.sub_questions) # 2 THEN RaisedItem("ValueError", TRUE)
    ELSE IF {"DEN", "NUM"} \ {question.sub_questions[i].question_type :
                                i \in 1..Len(question.sub_questions)} # {}
    THEN RaisedItem("ValueError", TRUE)
    ELSE IF score.raised # "" THEN RaisedItem(score.raised, score.names_id)
    ELSE LET denominator == FirstOfType(question.sub_questions, "DEN")
             numerator == FirstOfType(question.sub_questions, "NUM")
         IN  XLSFormItem(
                <<_create_question_relevance_record(question),
                  begin_group("table-list", PromptHint(question),
                              _create_question_label(question),
                              question.id \o "_PERC_GRP",
                              _get_question_relevance_calculation(question)),
                  of_positive_integer("", numerator.id,
                                      Str(escape_markdown(numerator.label)), ""),
                  of_positive_integer("", denominator.id,
                                      Str(escape_markdown(denominator.label)),
                                      ""),
                  XLSFormRecord("calculate", "",
                                _get_perc_question_calculation(numerator.id,
                                                               denominator.id),
                                "", "", "", question.id, ""),
                  of_note("", question.id \o "_PERC_CALC_DISPLAY", "",
                          "_**Result:** " \o eval(var(question.id)) \o "%_")>>
                \o ScoreRecords(question, score.value) \o <<end_group>>,
                <<>>)

\* enumerate(question.options_set, start=1): `order` is the order in which
\* this run iterates the set.
_serialize_select_question(question, score, order) ==
    IF question.options_set = {} THEN RaisedItem("ValueError", TRUE)
    ELSE IF score.raised # "" THEN RaisedItem(score.raised, score.names_id)
    ELSE XLSFormItem(
            <<_create_question_relevance_record(question),
              of_select_one(question.id, "", "", "", PromptHint(question),
                            _create_question_label(question), question.id,
                            _get_question_relevance_calculation(question))>>
            \o ScoreRecords(question, score.value),
            [index \in 1..Len(order) |->
                XLSFormChoice(Str(escape_markdown(order[index])), question.id,
                              build_select_option_name(question.id, index))])

\* The orders in which a set can be iterated.
IterationOrders(S) ==
    {f \in [1..Cardinality(S) -> S] :
        \A i, j \in 1..Cardinality(S) : i # j => f[i] # f[j]}

\* records.extend(..) / choices.extend(..) with the first k items, in order.
RECURSIVE ExtendRecords(_, _)
ExtendRecords(items, k) ==
    IF k = 0 THEN <<>> ELSE ExtendRecords(items, k - 1) \o items[k].records

RECURSIVE ExtendChoices(_, _)
ExtendChoices(items, k) ==
    IF k = 0 THEN <<>> ELSE ExtendChoices(items, k - 1) \o items[k].choices

\* The item `head` extended with the items of the questions, in order; the
\* first raised exception wins.
ExtendItems(head, items) ==
    IF \E k \in 1..Len(items) : items[k].raised # ""
    THEN LET first == CHOOSE k \in 1..Len(items) :
                        /\ items[k].raised # ""
                        /\ \A j \in 1..(k - 1) : items[j].raised = ""
         IN  RaisedItem(items[first].raised, items[first].names_id)
    ELSE XLSFormItem(head.records \o ExtendRecords(items, Len(items)),
                     head.choices \o ExtendChoices(items, Len(items)))

\* The compound question's group left open.
_serialize_generic_compound_question_Unclosed(question, score, sub_items) ==
    LET head ==
            XLSFormItem(
                <<_create_question_relevance_record(question),
                  begin_group("", "", _create_question_label(question),
                              question.id,
                              _get_question_relevance_calculation(question))>>,
                <<>>)
        body == ExtendItems(head, sub_items)
    IN  IF body.raised # "" THEN body
        ELSE IF score.raised # "" THEN RaisedItem(score.raised, score.names_id)
        ELSE XLSFormItem(body.records \o ScoreRecords(question, score.value),
                         body.choices)

\* _serialize_generic_compound_question, given the sub-questions' items.
_serialize_generic_compound_question(question, score, sub_items) ==
    LET head ==
            XLSFormItem(
                <<_create_question_relevance_record(question),
                  begin_group("", "", _create_question_label(question),
                              question.id,
                              _get_question_relevance_calculation(question))>>,
                <<>>)
        body == ExtendItems(head, sub_items)
    IN  IF body.raised # "" THEN body
        ELSE IF score.raised # "" THEN RaisedItem(score.raised, score.names_id)
        ELSE XLSFormItem(body.records \o ScoreRecords(question, score.value)
                         \o <<end_group>>, body.choices)

\* QuestionXLSFormSerializer.serialize.  `score` is the outcome of
\* parse_question_scoring_logic(question, None) and `iter` gives, for a set
\* of options, the order in which this run iterates it.
RECURSIVE SerializeWith(_, _, _)
SerializeWith(question, score, iter) ==
    CASE question.question_type = "BOOL" ->
            _serialize_bool_question(question, score)
      [] question.question_type = "COUNT" ->
            _serialize_count_question(question, score)
      [] question.question_type = "MULTI" ->
            _serialize_multi_question(question, score)
      [] question.question_type = "PERC" ->
            _serialize_perc_question(question, score)
      [] question.question_type = "RATE" ->
            _serialize_rate_question(question, score)
      [] question.question_type = "SELECT" ->
            _serialize_select_question(
                question, score,
                IF question.options_set = {} THEN <<>>
                ELSE iter[question.options_set])
      [] OTHER ->
            IF question.sub_questions # <<>>
            THEN _serialize_generic_compound_question(
                    question, score,
                    [k \in 1..Len(question.sub_questions) |->
                        SerializeWith(
                            question.sub_questions[k],
                            parse_question_scoring_logic(
                                question.sub_questions[k], None),
                            iter)])
            ELSE _serialize_generic_simple_question(question, score)

QuestionXLSFormSerializer_serialize(question, iter) ==
    CHOOSE q_items \in
        {SerializeWith(question, score_expr, iter) :
            score_expr \in {parse_question_scoring_logic(question, None)}} :
        TRUE


(***************************************************************************)
(* SECTION AND CHECKLIST LOWERING (lib/serializers/xls_form/__init__.py).  *)
(***************************************************************************)
\* A section: `id`, `title`, `standard` and `instructions` are texts (empty
\* for None), `questions` the values of the ordered mapping.
Section(id, title, standard, instructions, na_option, questions) ==
    [id |-> id, title |-> title, standard |-> standard,
     instructions |-> instructions, na_option |-> na_option,
     questions |-> questions]

\* A checklist: `sections` are the values of the ordered mapping.
MentorshipChecklist(id, name, sections) ==
    [id |-> id, name |-> name, sections |-> sections]

XLSFormSettings(form_id, form_title) ==
    [form_id |-> form_id, form_title |-> form_title, version |-> "1.5.0"]

\* An XLSForm, or the exception raised while building it.
XLSForm(survey, choices, settings) ==
    [survey |-> survey, choices |-> choices, settings |-> settings,
     raised |-> ""]

RaisedForm(cls) ==
    [survey |-> <<>>, choices |-> <<>>, settings |-> XLSFormSettings("", ""),
     raised |-> cls]

_COVER_SHEET_RECORDS ==
    <<begin_field_list("SITE AND ASSESSORS DETAILS", "MCL.ASSESSMENT_DETAILS"),
      XLSFormRecord("text", "", "", "", "", "Name:", "MCL.CS_ASSR_NAME", ""),
      of_select_one("counties", "minimal", "", "", "", "County:",
                    "MCL.CS_ASMT_COUNTY", ""),
      of_select_one("sub_counties", "minimal,autocomplete", "", "", "",
                    "Sub County:", "MCL.CS_ASMT_SUB_COUNTY", ""),
      of_select_one("facilities", "minimal,autocomplete", "", "", "",
                    "Facility:", "MCL.CS_ASMT_FACILITY", ""),
      of_note("Selected Facility MFL-code:", "MCL.CS_ASMT_FACILITY_MFL",
              "${MCL.CS_ASMT_FACILITY}", ""),
      XLSFormRecord("date", "", "", "today()", "", "Assessment Date:",
                    "MCL.CS_ASMT_DATE", ""),
      XLSFormRecord("time", "", "", "now()", "", "Assessment Start Time:",
                    "MCL.CS_ASMT_START_TIME", ""),
      XLSFormRecord("geopoint", "", "", "", "", "Location:",
                    "MCL.CS_ASMT_LOCATION", ""),
      end_group>>

_DEFAULT_CHOICES ==
    <<XLSFormChoice("<span style=\"color:gray\">Gray</span>", "cee_score",
                    "gray"),
      XLSFormChoice("<span style=\"color:green\">Green</span>", "cee_score",
                    "green"),
      XLSFormChoice("<span style=\"color:red\">Red</span>", "cee_score", "red"),
      XLSFormChoice("<span style=\"color:yellow\">Yellow</span>", "cee_score",
                    "yellow"),
      XLSFormChoice("Yes", "yes_no", "yes"),
      XLSFormChoice("No", "yes_no", "no")>>

\* reduce(lambda _acc, _qst: _acc + number(var(id(_qst))), ..., ZERO) over
\* the first k record ids.
RECURSIVE SumOfNumbers(_, _)
SumOfNumbers(record_ids, k) ==
    IF k = 0 THEN ZERO
    ELSE add(SumOfNumbers(record_ids, k - 1), number(var(record_ids[k])))

_get_section_int_score_calculation(section) ==
    SumOfNumbers([k \in 1..Len(section.questions) |->
                    _get_question_int_score_record_id(section.questions[k])],
                 Len(section.questions))

\* _get_section_max_score_calculation summing the integer scores.
_get_section_max_score_calculation_OfIntScores(section) ==
    _get_section_int_score_calculation(section)

_get_section_max_score_calculation(section) ==
    SumOfNumbers([k \in 1..Len(section.questions) |->
                    _get_question_max_score_record_id(section.questions[k])],
                 Len(section.questions))

\* SectionXLSFormSerializer.serialize; `iter` as in
\* QuestionXLSFormSerializer_serialize.
SectionXLSFormSerializer_serialize(item, iter) ==
    LET id == Str(item.id)
        int_scr_rec_id == id \o "_INT_SCORE"
        max_scr_rec_id == id \o "_MAX_SCORE"
        na_optn_rec_id == id \o "_NA"
        per_scr_rec_id == id \o "_PERCENTAGE_SCORE"
        head ==
            <<begin_field_list(
                Str(escape_markdown(<<"S", "E", "C", " ", "#", ":", " ">>
                                    \o item.id \o <<" ">> \o item.title)),
                id)>>
            \o (IF item.standard # <<>>
                THEN <<of_note("**STANDARD:** "
                                 \o Str(escape_markdown(item.standard)),
                               id \o "_STANDARD", "", "")>>
                ELSE <<>>)
            \o (IF item.instructions # <<>>
                THEN <<of_note("_**Instructions:** "
                                 \o Str(escape_markdown(
                                          escape_markdown(item.instructions)))
                                 \o "_",
                               id \o "_INSTRUCTION", "", "")>>
                ELSE <<>>)
            \o (IF item.na_option THEN <<of_trigger(na_optn_rec_id)>>
                ELSE <<>>)
        q_items ==
            [k \in 1..Len(item.questions) |->
                QuestionXLSFormSerializer_serialize(item.questions[k], iter)]
        body == ExtendItems(XLSFormItem(head, <<>>), q_items)
        per_scr_calc ==
            round_(mul(brkt(div(number(var(int_scr_rec_id)),
                                number(var(max_scr_rec_id)))),
                       int_(100)),
                   int_(2))
        scr_calc ==
            if_(lt(number(var(per_scr_rec_id)), int_(90)), CEE_SCORE_RED,
                if_(lt(number(var(per_scr_rec_id)), int_(95)),
                    CEE_SCORE_YELLOW, CEE_SCORE_GREEN))
        sec_scr_calc ==
            IF item.na_option
            THEN if_(eq(string(var(na_optn_rec_id)), str_("OK")),
                     CEE_SCORE_GRAY, scr_calc)
            ELSE scr_calc
        tail ==
            <<XLSFormRecord("text", "multiline", "", "", "", "Comments",
                            id \o "_COMMENTS", ""),
              XLSFormRecord("calculate", "",
                            eval(_get_section_int_score_calculation(item)),
                            "0", "", "", int_scr_rec_id, ""),
              XLSFormRecord("calculate", "",
                            eval(_get_section_max_score_calculation(item)),
                            "1", "", "", max_scr_rec_id, ""),
              XLSFormRecord("calculate", "", eval(per_scr_calc), "0", "", "",
                            per_scr_rec_id, ""),
              of_select_one("cee_score", "minimal", eval(sec_scr_calc), "red",
                            "", "Score", id \o "_SCORE", ""),
              end_group>>
    IN  IF body.raised # "" THEN body
        ELSE XLSFormItem(body.records \o tail, body.choices)

(***************************************************************************)
(* FACILITIES (core/domain.py, lib/serializers/xls_form).  The texts of a  *)
(* facility are sequences of characters.                                   *)
(***************************************************************************)
Facility(name, mfl_code, county, sub_county, ward) ==
    [name |-> name, mfl_code |-> mfl_code, county |-> county,
     sub_county |-> sub_county, ward |-> ward]

UpperCase ==
    <<"A", "B", "C", "D", "E", "F", "G", "H", "I", "J", "K", "L", "M", "N",
      "O", "P", "Q", "R", "S", "T", "U", "V", "W", "X", "Y", "Z">>

LowerCase ==
    <<"a", "b", "c", "d", "e", "f", "g", "h", "i", "j", "k", "l", "m", "n",
      "o", "p", "q", "r", "s", "t", "u", "v", "w", "x", "y", "z">>

Digits == <<"0", "1", "2", "3", "4", "5", "6", "7", "8", "9">>

\* The position of character c in seq, 0 when it is not there.
Index(seq, c) ==
    IF \E i \in 1..Len(seq) : seq[i] = c
    THEN CHOOSE i \in 1..Len(seq) : seq[i] = c
    ELSE 0

\* str.lower()
lower(text) ==
    [k \in 1..Len(text) |->
        IF Index(UpperCase, text[k]) > 0
        THEN LowerCase[Index(UpperCase, text[k])]
        ELSE text[k]]

\* ord(c): the code point of a character.
ord(c) ==
    CASE Index(UpperCase, c) > 0 -> 64 + Index(UpperCase, c)
      [] Index(LowerCase, c) > 0 -> 96 + Index(LowerCase, c)
      [] Index(Digits, c) > 0 -> 47 + Index(Digits, c)
      [] c = " " -> 32
      [] c = "#" -> 35
      [] c = "*" -> 42
      [] c = "\\" -> 92
      [] c = "_" -> 95

\* s < t on str: by code points, a proper prefix first.
RECURSIVE StrLt(_, _)
StrLt(s, t) ==
    IF t = <<>> THEN FALSE
    ELSE IF s = <<>> THEN TRUE
    ELSE IF ord(Head(s)) # ord(Head(t)) THEN ord(Head(s)) < ord(Head(t))
    ELSE StrLt(Tail(s), Tail(t))

org_unit_name_as_list_name(org_unit_name) ==
    lower(Replace(org_unit_name, " ", <<"_">>))

\* FacilityXLSFormSerializer.serialize
FacilityXLSFormSerializer_serialize(item) ==
    XLSFormItem(
        <<>>,
        <<OrgUnitChoice(Str(escape_markdown(item.name)), "facilities",
                        Str(item.mfl_code),
                        Str(org_unit_name_as_list_name(item.county)),
                        Str(org_unit_name_as_list_name(item.sub_county)),
                        Str(org_unit_name_as_list_name(item.ward)))>>)

\* sorted(item, key=lambda _f: _f.name): the sort is stable.
SortedFacilities(item) ==
    LET n == Len(item)
        p == CHOOSE p \in IterationOrders(1..n) :
                \A i, j \in 1..n : i < j =>
                    \/ StrLt(item[p[i]].name, item[p[j]].name)
                    \/ item[p[i]].name = item[p[j]].name /\ p[i] < p[j]
    IN  [k \in 1..n |-> item[p[k]]]

\* sorted(org_units) on a set of str.
SortedTexts(org_units) ==
    CHOOSE o \in IterationOrders(org_units) :
        \A i, j \in 1..Len(o) : i < j => StrLt(o[i], o[j])

\* sorted(org_units, key=lambda _s: _s[0]) on a set of tuples: tuples with
\* the same first component come in the order in which the set is iterated.
SortedByFirst(org_units) ==
    {o \in IterationOrders(org_units) :
        \A i, j \in 1..Len(o) : i < j => ~StrLt(o[j][1], o[i][1])}

_counties_to_xls_choice(org_units) ==
    LET o == SortedTexts(org_units)
    IN  [k \in 1..Len(o) |->
            OrgUnitChoice(Str(escape_markdown(o[k])), "counties",
                          Str(org_unit_name_as_list_name(o[k])), "", "", "")]

\* `sorted_units` is the outcome of the sort of the (sub_county, county)
\* pairs.
_sub_counties_to_xls_choice(sorted_units) ==
    [k \in 1..Len(sorted_units) |->
        OrgUnitChoice(Str(escape_markdown(sorted_units[k][1])), "sub_counties",
                      Str(org_unit_name_as_list_name(sorted_units[k][1])),
                      Str(org_unit_name_as_list_name(sorted_units[k][2])),
                      "", "")]

\* `sorted_units` is the outcome of the sort of the (ward, sub_county,
\* county) triples.
_wards_to_xls_forms(sorted_units) ==
    [k \in 1..Len(sorted_units) |->
        OrgUnitChoice(Str(escape_markdown(sorted_units[k][1])), "wards",
                      Str(org_unit_name_as_list_name(sorted_units[k][1])),
                      Str(org_unit_name_as_list_name(sorted_units[k][3])),
                      Str(org_unit_name_as_list_name(sorted_units[k][2])),
                      "")]

counties_cache(item) == {item[k].county : k \in 1..Len(item)}

sub_counties_cache(item) ==
    {<<item[k].sub_county, item[k].county>> : k \in 1..Len(item)}

wards_cache(item) ==
    {<<item[k].ward, item[k].sub_county, item[k].county>> :
        k \in 1..Len(item)}

\* FacilitiesXLSFormSerializer.serialize with the org units appended to the
\* facilities' choices instead of prepended.
FacilitiesXLSFormSerializer_serialize_Appended(item, sorted_sub_counties, sorted_wards) ==
    LET sorted == SortedFacilities(item)
    IN  XLSFormItem(<<>>,
                    [k \in 1..Len(sorted) |->
                        FacilityXLSFormSerializer_serialize(sorted[k]).choices[1]]
                    \o _wards_to_xls_forms(sorted_wards)
                    \o _sub_counties_to_xls_choice(sorted_sub_counties)
                    \o _counties_to_xls_choice(counties_cache(item)))

\* FacilitiesXLSFormSerializer.serialize, given the outcomes of the two sorts
\* by first component.
FacilitiesXLSFormSerializer_serialize(item, sorted_sub_counties, sorted_wards) ==
    LET sorted == SortedFacilities(item)
        choices ==
            [k \in 1..Len(sorted) |->
                FacilityXLSFormSerializer_serialize(sorted[k]).choices[1]]
    IN  XLSFormItem(<<>>,
                    _counties_to_xls_choice(counties_cache(item))
                    \o _sub_counties_to_xls_choice(sorted_sub_counties)
                    \o _wards_to_xls_forms(sorted_wards)
                    \o choices)

(***************************************************************************)
(* INPUTS.                                                                 *)
(***************************************************************************)
\* The rules a scoring string is made of.
Rules ==
    {Rule("if_bool", "Y", <<>>, <<>>, <<>>, "Red"),
     Rule("if_bool", "N", <<>>, <<>>, <<>>, "Green"),
     Rule("if_count", "", <<2>>, <<>>, <<>>, "Yellow"),
     Rule("if_range", "", <<3, 5>>, <<>>, <<>>, "Yellow"),
     Rule("if_selection", "", <<1, 3>>, <<>>, <<>>, "Green"),
     Rule("if_selection", "", <<0>>, <<>>, <<>>, "Red"),
     Rule("syntax_error", "", <<>>, <<>>, <<>>, ""),
     \* If >10% = Red
     Rule("if_comparison", "", <<>>, <<Term(">", 10, TRUE)>>, <<>>, "Red"),
     \* If >5% and =<10% = Yellow
     Rule("if_comparison", "", <<>>,
          <<Term(">", 5, TRUE), Term("=<", 10, TRUE)>>, <<"and">>, "Yellow"),
     \* If <5% = Green
     Rule("if_comparison", "", <<>>, <<Term("<", 5, TRUE)>>, <<>>, "Green"),
     \* If >5 = Green
     Rule("if_comparison", "", <<>>, <<Term(">", 5, FALSE)>>, <<>>, "Green"),
     \* If >=3 and =<5 = Yellow
     Rule("if_comparison", "", <<>>,
          <<Term(">=", 3, FALSE), Term("=<", 5, FALSE)>>, <<"and">>, "Yellow"),
     \* If >5% and <2 = Red
     Rule("if_comparison", "", <<>>,
          <<Term(">", 5, TRUE), Term("<", 2, FALSE)>>, <<"and">>, "Red"),
     \* If >=5 or <2% = Red
     Rule("if_comparison", "", <<>>,
          <<Term(">=", 5, FALSE), Term("<", 2, TRUE)>>, <<"or">>, "Red"),
     \* If <1% or U+2265 20% and U+2264 30% = Yellow
     Rule("if_comparison", "", <<>>,
          <<Term("<", 1, TRUE), Term("u2265", 20, TRUE),
            Term("u2264", 30, TRUE)>>, <<"or", "and">>, "Yellow"),
     \* If >1% and <9% or >20 = Gray
     Rule("if_comparison", "", <<>>,
          <<Term(">", 1, TRUE), Term("<", 9, TRUE), Term(">", 20, FALSE)>>,
          <<"and", "or">>, "Gray"),
     \* If >1 and <9 or >20% = Gray
     Rule("if_comparison", "", <<>>,
          <<Term(">", 1, FALSE), Term("<", 9, FALSE), Term(">", 20, TRUE)>>,
          <<"and", "or">>, "Gray")}

\* The id of the question under lowering.
QuestionId == "S1_Q1"

QuestionLabel == <<"Q", "_", "1", "#">>

\* A sub-question: no scoring string, no sub-questions of its own.
SubQuestion(suffix, question_type) ==
    Question(QuestionId \o "_" \o suffix, <<"s", "*", suffix>>, question_type,
             {}, NoText, <<>>, <<>>, FALSE, -1)

OptionTexts == {<<"A">>, <<"B", "_">>, <<"C">>}

\* The sub-question mappings a question of a kind is tried with.
SubQuestionsOf(question_type) ==
    CASE question_type = "PERC" ->
            {<<SubQuestion("NUM", "NUM"), SubQuestion("DEN", "DEN")>>,
             <<SubQuestion("DEN", "DEN"), SubQuestion("NUM", "NUM")>>,
             <<SubQuestion("NUM", "NUM"), SubQuestion("NUM2", "NUM")>>,
             <<SubQuestion("NUM", "NUM"), SubQuestion("DEN", "DEN"),
               SubQuestion("NUM2", "NUM")>>,
             <<SubQuestion("NUM", "NUM")>>,
             <<>>}
      [] question_type = "MULTI" ->
            {<<>>, <<SubQuestion("1", "CHOICE")>>,
             <<SubQuestion("1", "CHOICE"), SubQuestion("2", "CHOICE")>>}
      [] question_type \in {"CHOICE", "DEN", "NUM", "TEXT"} ->
            {<<>>, <<SubQuestion("1", "TEXT")>>,
             <<SubQuestion("1", "BOOL"), SubQuestion("2", "TEXT")>>}
      [] OTHER -> {<<>>}

OptionsOf(question_type) ==
    IF question_type = "SELECT" THEN SUBSET OptionTexts ELSE {{}}

\* The questions handed to the serializer; the scoring string is read rule
\* by rule while it is parsed.
Questions ==
    UNION {{Question(QuestionId, QuestionLabel, t, o, NoText, sl, sq, na, -1) :
                o \in OptionsOf(t), sq \in SubQuestionsOf(t), na \in BOOLEAN,
                sl \in {<<>>, <<EmptyRule>>}} :
            t \in QuestionType}

\* The outer else a caller of parse_question_scoring_logic may supply.
ElseExprs == {CEE_SCORE_GRAY, CEE_SCORE_RED}

(***************************************************************************)
(* INPUTS OF A COMPILATION: checklists as the loader links them.  Every id *)
(* is globally unique, a section's id starts with the checklist's id and   *)
(* '_', a question's id with its parent's id and '_'; a checklist has a    *)
(* section, a section a question, a PERC question its NUM and DEN and a    *)
(* MULTI question its choices.                                             *)
(***************************************************************************)
ChecklistId == <<"C">>

\* A child of the section or question `parent_id` with one more id segment.
ChildQuestion(parent_id, segment, question_type, options_set, scoring_logic, sub_questions) ==
    Question(parent_id \o "_" \o segment, <<"q", "_", segment>>, question_type,
             options_set, NoText, scoring_logic, sub_questions, FALSE, -1)

\* The questions section C_S1 may hold, in file order.
Section1Questions ==
    <<ChildQuestion("C_S1", "Q1", "TEXT", {}, <<>>, <<>>),
      ChildQuestion("C_S1", "Q1_SCORE", "TEXT", {}, <<>>, <<>>),
      ChildQuestion("C_S1", "Q2", "SELECT", {<<"A">>, <<"B", "_">>}, <<>>, <<>>),
      ChildQuestion("C_S1", "Q3", "PERC", {},
          <<Rule("if_comparison", "", <<>>, <<Term(">", 10, TRUE)>>, <<>>,
                 "Red"),
            Rule("if_comparison", "", <<>>, <<Term("<", 5, TRUE)>>, <<>>,
                 "Green")>>,
          <<ChildQuestion("C_S1_Q3", "NUM", "NUM", {}, <<>>, <<>>),
            ChildQuestion("C_S1_Q3", "DEN", "DEN", {}, <<>>, <<>>)>>),
      ChildQuestion("C_S1", "Q4", "RATE", {},
          <<Rule("if_comparison", "", <<>>, <<Term(">", 5, FALSE)>>, <<>>,
                 "Green"),
            Rule("if_comparison", "", <<>>,
                 <<Term(">=", 3, FALSE), Term("=<", 5, FALSE)>>, <<"and">>,
                 "Yellow")>>,
          <<>>)>>

\* The questions section C_S2 may hold, in file order.
Section2Questions ==
    <<ChildQuestion("C_S2", "Q1", "MULTI", {},
          <<Rule("if_range", "", <<3, 5>>, <<>>, <<>>, "Yellow"),
            Rule("if_comparison", "", <<>>, <<Term(">", 5, FALSE)>>, <<>>,
                 "Green")>>,
          <<ChildQuestion("C_S2_Q1", "1", "CHOICE", {}, <<>>, <<>>),
            ChildQuestion("C_S2_Q1", "2", "CHOICE", {}, <<>>, <<>>)>>),
      ChildQuestion("C_S2", "Q2", "SELECT", OptionTexts, <<>>, <<>>)>>

\* A question of a generic kind holding sub-questions, one of them a PERC
\* question.
CompoundQuestion ==
    ChildQuestion("C_S2", "Q3", "TEXT", {}, <<>>,
        <<ChildQuestion("C_S2_Q3", "1", "BOOL", {}, <<>>, <<>>),
          ChildQuestion("C_S2_Q3", "2", "PERC", {}, <<>>,
              <<ChildQuestion("C_S2_Q3_2", "NUM", "NUM", {}, <<>>, <<>>),
                ChildQuestion("C_S2_Q3_2", "DEN", "DEN", {}, <<>>, <<>>)>>)>>)

\* The elements of seq at the positions in I, in order.
RECURSIVE Pick(_, _, _)
Pick(seq, I, k) ==
    IF k = 0 THEN <<>>
    ELSE Pick(seq, I, k - 1) \o (IF k \in I THEN <<seq[k]>> ELSE <<>>)

\* Section C_S2 with one of its standard, its instructions and its
\* na_option set.
Section2Preludes ==
    {<<<<"s">>, <<>>, FALSE>>, <<<<>>, <<"i">>, FALSE>>, <<<<>>, <<>>, TRUE>>}

Checklists ==
    {MentorshipChecklist(
        Str(ChecklistId), <<"M", "#", "1">>,
        <<Section(ChecklistId \o <<"_", "S1">>, <<"T", "*">>, <<"s", "_">>,
                  <<"i", "_">>, TRUE,
                  Pick(Section1Questions, I, Len(Section1Questions)))>>
        \o s2) :
        I \in (SUBSET (1..Len(Section1Questions))) \ {{}},
        s2 \in {<<>>} \cup
               {<<Section(ChecklistId \o <<"_", "S2">>, <<"U">>, <<>>, <<>>,
                          FALSE,
                          Pick(Section2Questions, J, Len(Section2Questions)))>> :
                    J \in (SUBSET (1..Len(Section2Questions))) \ {{}}} \cup
               {<<Section(ChecklistId \o <<"_", "S2">>, <<"U">>, p[1], p[2],
                          p[3], <<CompoundQuestion>>)>> :
                    p \in Section2Preludes}}

\* The option sets of the SELECT questions of a checklist.
OptionSets(checklist) ==
    UNION {{checklist.sections[s].questions[q].options_set :
                q \in 1..Len(checklist.sections[s].questions)} :
            s \in 1..Len(checklist.sections)} \ {{}}

\* The ways one process may iterate each of the sets.
Iterations(sets) ==
    {f \in [sets -> UNION {IterationOrders(S) : S \in sets}] :
        \A S \in sets : f[S] \in IterationOrders(S)}

\* How many times a checklist is compiled.
Runs == 2

(***************************************************************************)
(* INPUTS OF A WORKFLOW RUN: the checklists and the facilities the two     *)
(* loaders hand over.                                                      *)
(***************************************************************************)
\* Facilities whose org units share names across parents, differ only in
\* case or in ' ' against '_', and that repeat a name or an MFL code.
Facilities ==
    {Facility(<<"B">>, <<"1">>, <<"K", " ", "a">>, <<"S">>, <<"W">>),
     Facility(<<"A">>, <<"2">>, <<"k", "_", "a">>, <<"S">>, <<"w">>),
     Facility(<<"A">>, <<"1">>, <<"K", " ", "a">>, <<"T">>, <<"W">>),
     Facility(<<"C", "#">>, <<"3">>, <<"M">>, <<"S">>, <<"V">>)}

MaxFacilities == 3

MaxChecklists == 2

\* The sequences without repetition of at most n elements of S.
SeqsOf(S, n) ==
    UNION {{f \in [1..k -> S] : \A i, j \in 1..k : i # j => f[i] # f[j]} :
            k \in 0..n}

\* The checklists of a workflow run: one section with one question.
WorkflowChecklists ==
    {c \in Checklists :
        Len(c.sections) = 1 /\ Len(c.sections[1].questions) = 1}

(***************************************************************************)
(* THE STATE MACHINE: lowering of one question.                            *)
(*   question             the question; its scoring_logic holds the rules  *)
(*                        read so far                                      *)
(*   else_expr            the else_expr argument of                        *)
(*                        parse_question_scoring_logic                     *)
(*   pc                   position: serialize, parse, walk, emit, done,    *)
(*                        parsed, failed                                   *)
(*   events               callbacks the walker still has to make           *)
(*   listener             the ScoringLogicListener of the current rule     *)
(*   scoring_expressions  the walk results of the rules walked so far      *)
(*   score                outcome of parse_question_scoring_logic          *)
(*   item                 outcome of QuestionXLSFormSerializer.serialize   *)
(***************************************************************************)
VARIABLES question, else_expr, pc, events, listener, scoring_expressions,
          score, item

\* The compilation of a checklist (see below).
VARIABLES checklist, cpc, run, iteration, next_section, form, forms

qvars == <<question, else_expr, pc, events, listener, scoring_expressions,
           score, item>>

cvars == <<checklist, cpc, run, iteration, next_section, form, forms>>

\* One run of the workflow (see below).
\*   raw_data        the checklists and the facilities
\*   wpc             position: apply, checklists, drain, written, failed
\*   org_units       the XLSFormItem of the facilities
\*   processed_data  the forms of the checklists processed so far
\*   written         the forms handed to a writer
VARIABLES raw_data, wpc, org_units, processed_data, written

wvars == <<raw_data, wpc, org_units, processed_data, written>>

\* One call of a constructor of the expressions package: the name it was
\* called by with its arguments, and what the call returned or raised.
VARIABLES call, built

evars == <<call, built>>

\* One call of ChecklistsExcelMetadataLoader.load: the rows of the three
\* sheets of the workbook, the loader's three fields, where load() stands and
\* the exception it raised.  An object is the position of its row in its
\* sheet, and a mapping of objects the sequence of the positions it holds, in
\* the order of its keys.
VARIABLES metadata_source, lpc, _questions, _sections, _checklists, load_raised

lvars == <<metadata_source, lpc, _questions, _sections, _checklists,
           load_raised>>

\* One call of KMHFRFacilityLoader._make_request.
\*   rpc                  position: request, authenticate, returned, raised
\*   retries              the remaining_retries the caller passed
\*   remaining_retries    the argument of the current (recursive) call
\*   valid_res_predicate  the predicate the caller passed
\*   _is_disposed         whether the loader was disposed of before the call
\*   _auth                the loader's credentials
\*   responses            the status codes of the responses to the request
\*   tokens               how many times the loader authenticated
\*   res                  the response returned (0: none)
\*   request_raised       the message of the error raised
VARIABLES rpc, retries, remaining_retries, valid_res_predicate, _is_disposed, _auth, responses, tokens, res, request_raised

rvars == <<rpc, retries, remaining_retries, valid_res_predicate, _is_disposed,
           _auth, responses, tokens, res, request_raised>>

vars == <<qvars, cvars, wvars, evars, lvars, rvars>>

NoRequest ==
    /\ rpc = "idle"
    /\ retries = 0
    /\ remaining_retries = 0
    /\ valid_res_predicate = ""
    /\ _is_disposed = FALSE
    /\ _auth = "_NoAuth"
    /\ responses = <<>>
    /\ tokens = 0
    /\ res = 0
    /\ request_raised = ""

NoExpression ==
    /\ call = <<>>
    /\ built = None

NoLoad ==
    /\ metadata_source = <<>>
    /\ lpc = "idle"
    /\ _questions = <<>>
    /\ _sections = <<>>
    /\ _checklists = <<>>
    /\ load_raised = ""

NoWorkflow ==
    /\ raw_data = <<<<>>, <<>>>>
    /\ wpc = "idle"
    /\ org_units = [records |-> <<>>, choices |-> <<>>, raised |-> "",
                    names_id |-> FALSE]
    /\ processed_data = <<>>
    /\ written = <<>>

\* No checklist is being compiled.
NoCompilation ==
    /\ checklist = MentorshipChecklist("", <<>>, <<>>)
    /\ cpc = "idle"
    /\ run = 0
    /\ iteration = <<>>
    /\ next_section = 0
    /\ form = RaisedForm("")
    /\ forms = <<>>

NoItem == XLSFormItem(<<>>, <<>>)

Init ==
    /\ question \in Questions
    /\ \/ pc = "serialize" /\ else_expr = None
       \/ pc = "parse" /\ else_expr \in ElseExprs
    /\ events = <<>>
    /\ listener = ScoringLogicListener
    /\ scoring_expressions = <<>>
    /\ score = Returned(None)
    /\ item = NoItem
    /\ NoCompilation
    /\ NoWorkflow
    /\ NoExpression
    /\ NoLoad
    /\ NoRequest

\* Some iteration order for every option set: what is raised does not depend
\* on it.
AnyIteration ==
    [S \in (SUBSET OptionTexts) \ {{}} |-> CHOOSE f \in IterationOrders(S) : TRUE]

\* QuestionXLSFormSerializer.serialize up to the point where the question's
\* score record is built: the dispatch, the sanity checks and the lowering of
\* the sub-questions.
serialize ==
    /\ UNCHANGED <<cvars, wvars, evars, lvars, rvars>>
    /\ pc = "serialize"
    /\ LET before == SerializeWith(question, Returned(None), AnyIteration)
       IN  IF before.raised # ""
           THEN /\ pc' = "failed"
                /\ item' = RaisedItem(before.raised, before.names_id)
           ELSE /\ pc' = "parse"
                /\ item' = item
    /\ UNCHANGED <<question, else_expr, events, listener, scoring_expressions,
                   score>>

\* parse_question_scoring_logic on a question without scoring string.
no_scoring_logic ==
    /\ UNCHANGED <<cvars, wvars, evars, lvars, rvars>>
    /\ pc = "parse"
    /\ NoScoringLogic(question)
    /\ score' = Returned(None)
    /\ pc' = IF else_expr = None THEN "emit" ELSE "parsed"
    /\ UNCHANGED <<question, else_expr, events, listener, scoring_expressions,
                   item>>

\* _scoring_logic_txt_to_expr(question, rule) for the next rule of the
\* scoring string: a fresh listener and the walk of the rule's tree.
next_rule ==
    /\ UNCHANGED <<cvars, wvars, evars, lvars, rvars>>
    /\ pc = "parse"
    /\ Len(question.scoring_logic) < MaxRules
    /\ question.scoring_logic # <<EmptyRule>>
    /\ \E rule \in Rules :
        /\ question' = [question EXCEPT !.scoring_logic = Append(@, rule)]
        /\ events' = WalkEvents(rule)
    /\ listener' = ScoringLogicListener
    /\ pc' = "walk"
    /\ UNCHANGED <<else_expr, scoring_expressions, score, item>>

\* The walker is about to make the callback `name`.
Calls(name) ==
    /\ pc = "walk"
    /\ events # <<>>
    /\ Head(events).ev = name

\* The callback left the listener in state l: the walk goes on, or the
\* exception l carries ends the parse.
Called(l) ==
    /\ UNCHANGED <<cvars, wvars, evars, lvars, rvars>>
    /\ listener' = l
    /\ events' = Tail(events)
    /\ pc' = IF l.raised # "" THEN "failed" ELSE pc
    /\ score' = IF l.raised # "" THEN Raised(l.raised, l.names_id) ELSE score
    /\ UNCHANGED <<question, else_expr, scoring_expressions, item>>

StepEnterIfBool ==
    /\ Calls("enterIf_bool_literal_equals_score")
    /\ Called(enterIf_bool_literal_equals_score(listener, question, Head(events).ctx))

StepExitIfBool ==
    /\ Calls("exitIf_bool_literal_equals_score")
    /\ Called(exitIf_bool_literal_equals_score(listener, question, Head(events).ctx))

StepEnterComparison ==
    /\ Calls("enterComparison_expression")
    /\ Called(enterComparison_expression(listener, question, Head(events).ctx))

StepExitComparison ==
    /\ Calls("exitComparison_expression")
    /\ Called(exitComparison_expression(listener, question, Head(events).ctx))

StepEnterIfCount ==
    /\ Calls("enterIf_count_equals_score")
    /\ Called(enterIf_count_equals_score(listener, question, Head(events).ctx))

StepExitIfCount ==
    /\ Calls("exitIf_count_equals_score")
    /\ Called(exitIf_count_equals_score(listener, question, Head(events).ctx))

StepEnterIfRange ==
    /\ Calls("enterIf_range_equals_score")
    /\ Called(enterIf_range_equals_score(listener, question, Head(events).ctx))

StepEnterIfSelection ==
    /\ Calls("enterIf_selection_equals_score")
    /\ Called(enterIf_selection_equals_score(listener, question, Head(events).ctx))

StepEnterRange ==
    /\ Calls("enterRange_expression")
    /\ Called(enterRange_expression(listener, question, Head(events).ctx))

StepExitRange ==
    /\ Calls("exitRange_expression")
    /\ Called(exitRange_expression(listener, question, Head(events).ctx))

StepEnterSelection ==
    /\ Calls("enterSelection_expression")
    /\ Called(enterSelection_expression(listener, question, Head(events).ctx))

StepExitSelection ==
    /\ Calls("exitSelection_expression")
    /\ Called(exitSelection_expression(listener, question, Head(events).ctx))

StepFinalize ==
    /\ Calls("exitIf_complex_equals_score")
    /\ Called(_finalize_complex_expression(listener, question, Head(events).ctx))

StepSyntaxError ==
    /\ Calls("syntaxError")
    /\ Called(syntaxError(listener, question, Head(events).ctx))

\* The end of a rule's walk: scoring_logic_parser.walk_results.
end_walk ==
    /\ UNCHANGED <<cvars, wvars, evars, lvars, rvars>>
    /\ pc = "walk"
    /\ events = <<>>
    /\ LET l == walk_results(listener)
       IN  IF l.raised # ""
           THEN /\ pc' = "failed"
                /\ score' = Raised(l.raised, l.names_id)
                /\ scoring_expressions' = scoring_expressions
           ELSE /\ pc' = "parse"
                /\ score' = score
                /\ scoring_expressions' =
                      Append(scoring_expressions, ListenerWalkResults(l))
    /\ UNCHANGED <<question, else_expr, events, listener, item>>

\* The scoring string has no further rule: the length check and the fold.
reduce ==
    /\ UNCHANGED <<cvars, wvars, evars, lvars, rvars>>
    /\ pc = "parse"
    /\ ~NoScoringLogic(question)
    /\ LET r == FoldScoringExpressions(question, scoring_expressions, else_expr)
       IN  /\ score' = r
           /\ pc' = IF r.raised # "" THEN "failed"
                    ELSE IF else_expr = None THEN "emit" ELSE "parsed"
    /\ UNCHANGED <<question, else_expr, events, listener, scoring_expressions,
                   item>>

\* The rest of QuestionXLSFormSerializer.serialize: the records and choices.
emit ==
    /\ UNCHANGED <<cvars, wvars, evars, lvars, rvars>>
    /\ pc = "emit"
    /\ \E iter \in [{question.options_set} \ {{}} ->
                        IterationOrders(question.options_set)] :
         item' = SerializeWith(question, score, iter)
    /\ pc' = "done"
    /\ UNCHANGED <<question, else_expr, events, listener, scoring_expressions,
                   score>>

Next ==
    \/ serialize
    \/ no_scoring_logic
    \/ next_rule
    \/ StepEnterIfBool
    \/ StepExitIfBool
    \/ StepEnterComparison
    \/ StepExitComparison
    \/ StepEnterIfCount
    \/ StepExitIfCount
    \/ StepEnterIfRange
    \/ StepEnterIfSelection
    \/ StepEnterRange
    \/ StepExitRange
    \/ StepEnterSelection
    \/ StepExitSelection
    \/ StepFinalize
    \/ StepSyntaxError
    \/ end_walk
    \/ reduce
    \/ emit

Spec == Init /\ [][Next]_vars

(***************************************************************************)
(* THE STATE MACHINE: compilation of one checklist, Runs times, each time  *)
(* in a process of its own.                                                *)
(*   checklist     the checklist                                           *)
(*   cpc           position: start, sections, returned, done               *)
(*   run           the number of the running compilation                   *)
(*   iteration     for every set of options, the order in which the       *)
(*                 running process iterates it                             *)
(*   next_section  the section the loop of                                 *)
(*                 ChecklistXLSFormSerializer.serialize is at              *)
(*   form          the XLSForm under construction, or what was raised      *)
(*   forms         the outcomes of the finished compilations               *)
(***************************************************************************)
\* No question is lowered on its own.
NoLowering ==
    /\ question = Question("", <<>>, "TEXT", {}, NoText, <<>>, <<>>, FALSE, -1)
    /\ else_expr = None
    /\ pc = "idle"
    /\ events = <<>>
    /\ listener = ScoringLogicListener
    /\ scoring_expressions = <<>>
    /\ score = Returned(None)
    /\ item = NoItem

InitCompile ==
    /\ checklist \in Checklists
    /\ cpc = "start"
    /\ run = 1
    /\ iteration = <<>>
    /\ next_section = 1
    /\ form = RaisedForm("")
    /\ forms = <<>>
    /\ NoLowering
    /\ NoWorkflow
    /\ NoExpression
    /\ NoLoad
    /\ NoRequest

\* ChecklistXLSFormSerializer.serialize up to its loop, in a fresh process.
compile_start ==
    /\ cpc = "start"
    /\ iteration' \in Iterations(OptionSets(checklist))
    /\ IF checklist.sections = <<>>
       THEN /\ cpc' = "returned"
            /\ form' = RaisedForm("ValueError")
       ELSE /\ cpc' = "sections"
            /\ form' = XLSForm(_COVER_SHEET_RECORDS, _DEFAULT_CHOICES,
                               XLSFormSettings(
                                   checklist.id,
                                   Str(escape_markdown(checklist.name))))
    /\ next_section' = 1
    /\ UNCHANGED <<checklist, run, forms>>
    /\ UNCHANGED <<qvars, wvars, evars, lvars, rvars>>

\* One turn of the loop over item.sections.values().
compile_section ==
    /\ cpc = "sections"
    /\ next_section <= Len(checklist.sections)
    /\ LET section_items ==
               SectionXLSFormSerializer_serialize(
                   checklist.sections[next_section], iteration)
       IN  IF section_items.raised # ""
           THEN /\ cpc' = "returned"
                /\ form' = RaisedForm(section_items.raised)
           ELSE /\ cpc' = cpc
                /\ form' = [form EXCEPT
                              !.choices = @ \o section_items.choices,
                              !.survey = @ \o section_items.records]
    /\ next_section' = next_section + 1
    /\ UNCHANGED <<checklist, run, iteration, forms>>
    /\ UNCHANGED <<qvars, wvars, evars, lvars, rvars>>

\* The loop is over: return XLSForm(survey=records, choices=choices, ...).
compile_return ==
    /\ cpc = "sections"
    /\ next_section > Len(checklist.sections)
    /\ cpc' = "returned"
    /\ UNCHANGED <<checklist, run, iteration, next_section, form, forms>>
    /\ UNCHANGED <<qvars, wvars, evars, lvars, rvars>>

\* The outcome is kept and the checklist is compiled once more.
compile_again ==
    /\ cpc = "returned"
    /\ forms' = Append(forms, form)
    /\ IF run < Runs
       THEN /\ run' = run + 1
            /\ cpc' = "start"
       ELSE /\ run' = run
            /\ cpc' = "done"
    /\ UNCHANGED <<checklist, iteration, next_section, form>>
    /\ UNCHANGED <<qvars, wvars, evars, lvars, rvars>>

NextCompile ==
    \/ compile_start
    \/ compile_section
    \/ compile_return
    \/ compile_again

SpecCompile == InitCompile /\ [][NextCompile]_vars

(***************************************************************************)
(* THE STATE MACHINE: one run of the workflow (use_cases/app_workflow.py). *)
(* The processor serializes the facilities, compiles every checklist and   *)
(* appends the org units' choices to its form; the sink hands every form   *)
(* to a writer.                                                            *)
(***************************************************************************)
InitWorkflow ==
    /\ raw_data \in SeqsOf(WorkflowChecklists, MaxChecklists)
                    \X SeqsOf(Facilities, MaxFacilities)
    /\ wpc = "apply"
    /\ org_units = NoItem
    /\ processed_data = <<>>
    /\ written = <<>>
    /\ NoCompilation
    /\ NoLowering
    /\ NoExpression
    /\ NoLoad
    /\ NoRequest

\* The checklist _ChecklistProcessor.apply turns to after k of them.
TurnTo(k) ==
    IF k < Len(raw_data[1])
    THEN /\ checklist' = raw_data[1][k + 1]
         /\ cpc' = "start"
         /\ wpc' = "checklists"
    ELSE /\ checklist' = checklist
         /\ cpc' = "idle"
         /\ wpc' = "drain"

\* _ChecklistProcessor.apply up to its loop: the facilities are serialized.
apply ==
    /\ wpc = "apply"
    /\ \E sorted_sub_counties \in SortedByFirst(sub_counties_cache(raw_data[2])),
          sorted_wards \in SortedByFirst(wards_cache(raw_data[2])) :
         org_units' = FacilitiesXLSFormSerializer_serialize(
                          raw_data[2], sorted_sub_counties, sorted_wards)
    /\ TurnTo(0)
    /\ UNCHANGED <<raw_data, processed_data, written>>
    /\ UNCHANGED <<run, iteration, next_section, form, forms>>
    /\ UNCHANGED <<qvars, evars, lvars, rvars>>

\* _ChecklistProcessor._checklist_to_form once serializer.serialize(checklist)
\* is back: the org units' choices go after the form's own.
_checklist_to_form ==
    /\ wpc = "checklists"
    /\ cpc = "returned"
    /\ IF form.raised # ""
       THEN /\ wpc' = "failed"
            /\ cpc' = "idle"
            /\ UNCHANGED <<checklist, processed_data, form>>
       ELSE /\ form' = [form EXCEPT !.choices = @ \o org_units.choices]
            /\ processed_data' = Append(processed_data, form')
            /\ TurnTo(Len(processed_data) + 1)
    /\ UNCHANGED <<raw_data, org_units, written>>
    /\ UNCHANGED <<run, iteration, next_section, forms>>
    /\ UNCHANGED <<qvars, evars, lvars, rvars>>

\* _ChecklistSaver.drain: every form is handed to a writer.
drain ==
    /\ wpc = "drain"
    /\ written' = processed_data
    /\ wpc' = "written"
    /\ UNCHANGED <<raw_data, org_units, processed_data>>
    /\ UNCHANGED <<qvars, cvars, evars, lvars, rvars>>

NextWorkflow ==
    \/ apply
    \/ compile_start
    \/ compile_section
    \/ compile_return
    \/ _checklist_to_form
    \/ drain

SpecWorkflow == InitWorkflow /\ [][NextWorkflow]_vars

(***************************************************************************)
(* STATE MACHINE OF ONE CONSTRUCTOR CALL of the expressions package: the   *)
(* constructor is called with operands of every kind.                      *)
(***************************************************************************)
\* Operands: a Bool literal and a Bool operator, an Int and a Number, a
\* Number operator, a Text, a Variable (of no kind), a Coalesce (of every
\* kind) and None.
Operands ==
    {TRUE_, eq(ZERO, ONE), ZERO, THREE, add(ONE, TWO), str_("a"),
     var("q"), coalesce(var("q"), ZERO), None}

ArithmeticOperators == {"add", "div", "mul", "sub"}

OrderOperators == {"ge", "gt", "le", "lt"}

EqualityOperators == {"eq", "ne"}

BooleanOperators == {"and_", "or_"}

\* The constructor exported under `name`, called on two operands.
Construct(name, l, r) ==
    CASE name = "add" -> add(l, r)
      [] name = "div" -> div(l, r)
      [] name = "mul" -> mul(l, r)
      [] name = "sub" -> sub(l, r)
      [] name = "and_" -> and_(l, r)
      [] name = "or_" -> or_(l, r)
      [] name = "eq" -> eq(l, r)
      [] name = "ne" -> ne(l, r)
      [] name = "ge" -> ge(l, r)
      [] name = "gt" -> gt(l, r)
      [] name = "le" -> le(l, r)
      [] name = "lt" -> lt(l, r)
      [] name = "coalesce" -> coalesce(l, r)
      [] name = "if_" -> if_(l, r, r)
      [] name = "not_" -> not_(l)

InitExpressions ==
    /\ NoExpression
    /\ NoLowering
    /\ NoCompilation
    /\ NoWorkflow
    /\ NoLoad
    /\ NoRequest

Constructed(names) ==
    \E name \in names, l \in Operands, r \in Operands :
        /\ call' = <<name, l, r>>
        /\ built' = Construct(name, l, r)
        /\ UNCHANGED <<qvars, cvars, wvars, lvars, rvars>>

arithmetic == Constructed(ArithmeticOperators)

comparison == Constructed(OrderOperators \cup EqualityOperators)

logical == Constructed(BooleanOperators)

function == Constructed({"coalesce", "if_", "not_"})

NextExpressions ==
    \/ arithmetic
    \/ comparison
    \/ logical
    \/ function

SpecExpressions == InitExpressions /\ [][NextExpressions]_vars

(***************************************************************************)
(* CHECKLIST LOADER (lib/loaders/checklist_loader.py).                     *)
(***************************************************************************)
_PARENT_QUESTION_TYPES ==
    {"BOOL", "COUNT", "MULTI", "PERC", "RATE", "SELECT", "TEXT"}

\* str.startswith on texts.
startswith(text, prefix) ==
    Len(prefix) <= Len(text) /\ SubSeq(text, 1, Len(prefix)) = prefix

\* str.strip: the text without its leading and trailing spaces.
RECURSIVE strip(_)
strip(text) ==
    IF text = <<>> THEN <<>>
    ELSE IF Head(text) = " " THEN strip(Tail(text))
    ELSE IF text[Len(text)] = " " THEN strip(SubSeq(text, 1, Len(text) - 1))
    ELSE text

\* A row of the Questions, Sections or Mentorship Checklists sheet: its id
\* cell and, for a question, its Question Type cell.
QuestionRow(id, question_type) == [id |-> id, question_type |-> question_type]

SheetRow(id) == [id |-> id]

_question_mapping_to_object(question_mapping) ==
    [id |-> strip(question_mapping.id),
     question_type |-> question_mapping.question_type,
     sub_questions |-> <<>>]

_section_mapping_to_object(section_mapping) ==
    [id |-> strip(section_mapping.id), questions |-> <<>>]

_checklist_mapping_to_object(checklist_mapping) ==
    [id |-> strip(checklist_mapping.id), sections |-> <<>>]

\* {_o.id: _o for _o in filter(...)}: of the selected objects, one per id,
\* the last one holding it, in the order the ids first come.
RECURSIVE AsMapping(_, _, _)
AsMapping(objects, selected, k) ==
    IF k = 0 THEN <<>>
    ELSE AsMapping(objects, selected, k - 1)
         \o (IF /\ k \in selected
                /\ \A j \in selected : j < k => objects[j].id # objects[k].id
             THEN <<CHOOSE j \in selected :
                        /\ objects[j].id = objects[k].id
                        /\ \A i \in selected :
                              objects[i].id = objects[k].id => i <= j>>
             ELSE <<>>)

\* _select_questions / _select_sections: the objects whose id starts with the
\* parent's id and '_'.
ChildrenOf(parent, objects) ==
    {j \in 1..Len(objects) : startswith(objects[j].id, parent.id \o <<"_">>)}

\* What a linking pass leaves: the objects as linked so far, and whether
\* _ensure_valid_metadata raised.
Linked(objects, raised) == [objects |-> objects, raised |-> raised]

\* _link_questions after its first k turns.
RECURSIVE _link_questions(_, _)
_link_questions(questions, k) ==
    IF k = 0 THEN Linked(questions, FALSE)
    ELSE CHOOSE r \in
        {IF before.raised THEN before
         ELSE LET qs == before.objects
                  sub_questions ==
                      AsMapping(qs, ChildrenOf(qs[k], qs), Len(qs))
              IN  CASE qs[k].question_type = "PERC" ->
                        IF Len(sub_questions) # 2 THEN Linked(qs, TRUE)
                        ELSE Linked([qs EXCEPT ![k].sub_questions =
                                                    sub_questions], FALSE)
                    [] qs[k].question_type = "MULTI" ->
                        IF Len(sub_questions) = 0 THEN Linked(qs, TRUE)
                        ELSE Linked([qs EXCEPT ![k].sub_questions =
                                                    sub_questions], FALSE)
                    [] OTHER -> before :
            before \in {_link_questions(questions, k - 1)}} : TRUE

\* _link_sections taking the questions of every kind.
RECURSIVE _link_sections_AnyKind(_, _, _)
_link_sections_AnyKind(sections, questions, k) ==
    IF k = 0 THEN Linked(sections, FALSE)
    ELSE CHOOSE r \in
        {IF before.raised THEN before
         ELSE LET sub_questions ==
                      AsMapping(questions,
                                ChildrenOf(sections[k], questions),
                                Len(questions))
              IN  IF Len(sub_questions) = 0 THEN Linked(before.objects, TRUE)
                  ELSE Linked([before.objects EXCEPT ![k].questions =
                                                        sub_questions], FALSE) :
            before \in {_link_sections_AnyKind(sections, questions, k - 1)}} : TRUE

\* _link_sections after its first k turns.
RECURSIVE _link_sections(_, _, _)
_link_sections(sections, questions, k) ==
    IF k = 0 THEN Linked(sections, FALSE)
    ELSE CHOOSE r \in
        {IF before.raised THEN before
         ELSE LET sub_questions ==
                      AsMapping(questions,
                                {j \in ChildrenOf(sections[k], questions) :
                                    questions[j].question_type
                                        \in _PARENT_QUESTION_TYPES},
                                Len(questions))
              IN  IF Len(sub_questions) = 0 THEN Linked(before.objects, TRUE)
                  ELSE Linked([before.objects EXCEPT ![k].questions =
                                                        sub_questions], FALSE) :
            before \in {_link_sections(sections, questions, k - 1)}} : TRUE

\* _link_checklists after its first k turns.
RECURSIVE _link_checklists(_, _, _)
_link_checklists(checklists, sections, k) ==
    IF k = 0 THEN Linked(checklists, FALSE)
    ELSE CHOOSE r \in
        {IF before.raised THEN before
         ELSE LET sub_sections ==
                      AsMapping(sections, ChildrenOf(checklists[k], sections),
                                Len(sections))
              IN  IF Len(sub_sections) = 0 THEN Linked(before.objects, TRUE)
                  ELSE Linked([before.objects EXCEPT ![k].sections =
                                                        sub_sections], FALSE) :
            before \in {_link_checklists(checklists, sections, k - 1)}} : TRUE

(***************************************************************************)
(* INPUTS OF A LOAD: the workbook's sheets.  Ids are prefix-hierarchical   *)
(* and unique in their sheet; a cell may carry a trailing space.           *)
(***************************************************************************)
\* The rows a sheet may hold, in sheet order: each is there or not.
QuestionRows ==
    <<{QuestionRow(<<"C", "_", "1", "_", "1">>, t) : t \in {"BOOL", "MULTI", "PERC"}},
      {QuestionRow(<<"C", "_", "1", "_", "1", "_", "1">>, t) :
            t \in {"CHOICE", "NUM", "TEXT"}},
      {QuestionRow(<<"C", "_", "1", "_", "1", "_", "2">>, "DEN")},
      {QuestionRow(<<"C", "_", "2", "_", "1", " ">>, "SELECT")},
      {QuestionRow(<<"C", "_", "X", "_", "1", "_", "1">>, "BOOL")}>>

SectionRows ==
    <<{SheetRow(<<"C", "_", "1">>)}, {SheetRow(<<"C", "_", "2">>)},
      {SheetRow(<<"C", "_", "X", "_", "1">>)}>>

ChecklistRows ==
    <<{SheetRow(<<"C">>)}, {SheetRow(<<" ", "C", "_", "X">>)}>>

\* The sheets with some of the rows, in order.
RECURSIVE Sheets(_, _)
Sheets(rows, k) ==
    IF k = 0 THEN {<<>>}
    ELSE LET before == Sheets(rows, k - 1)
         IN  before \cup {Append(s, r) : s \in before, r \in rows[k]}

(***************************************************************************)
(* STATE MACHINE OF ONE LOAD.                                              *)
(***************************************************************************)
InitLoad ==
    /\ metadata_source \in [questions : Sheets(QuestionRows, Len(QuestionRows)),
                            sections : Sheets(SectionRows, Len(SectionRows)),
                            checklists : Sheets(ChecklistRows,
                                                Len(ChecklistRows))]
    /\ lpc = "questions"
    /\ _questions = <<>>
    /\ _sections = <<>>
    /\ _checklists = <<>>
    /\ load_raised = ""
    /\ NoLowering
    /\ NoCompilation
    /\ NoWorkflow
    /\ NoExpression
    /\ NoRequest

\* A step of load() that may raise InvalidMetadataError.
Step(linked, next) ==
    /\ lpc' = IF linked.raised THEN "failed" ELSE next
    /\ load_raised' = IF linked.raised THEN "InvalidMetadataError" ELSE ""
    /\ UNCHANGED <<metadata_source, qvars, cvars, wvars, evars, rvars>>

\* load(): the questions are read and linked to their sub-questions.
load_questions ==
    /\ lpc = "questions"
    /\ LET questions == [i \in 1..Len(metadata_source.questions) |->
                            _question_mapping_to_object(
                                metadata_source.questions[i])]
           linked == _link_questions(questions, Len(questions))
       IN  /\ _questions' = linked.objects
           /\ Step(linked, "sections")
    /\ UNCHANGED <<_sections, _checklists>>

\* load(): the sections are read and linked to their questions.
load_sections ==
    /\ lpc = "sections"
    /\ LET sections == [i \in 1..Len(metadata_source.sections) |->
                            _section_mapping_to_object(
                                metadata_source.sections[i])]
           linked == _link_sections(sections, _questions, Len(sections))
       IN  /\ _sections' = linked.objects
           /\ Step(linked, "checklists")
    /\ UNCHANGED <<_questions, _checklists>>

\* load(): the checklists are read and linked to their sections.
load_checklists ==
    /\ lpc = "checklists"
    /\ LET checklists == [i \in 1..Len(metadata_source.checklists) |->
                            _checklist_mapping_to_object(
                                metadata_source.checklists[i])]
           linked == _link_checklists(checklists, _sections, Len(checklists))
       IN  /\ _checklists' = linked.objects
           /\ Step(linked, "return")
    /\ UNCHANGED <<_questions, _sections>>

\* load() returns self._checklists.
load_return ==
    /\ lpc = "return"
    /\ lpc' = "returned"
    /\ UNCHANGED <<metadata_source, _questions, _sections, _checklists,
                   load_raised, qvars, cvars, wvars, evars, rvars>>

NextLoad ==
    \/ load_questions
    \/ load_sections
    \/ load_checklists
    \/ load_return

SpecLoad == InitLoad /\ [][NextLoad]_vars

(***************************************************************************)
(* STATE MACHINE OF ONE REQUEST to the KMHFR server                        *)
(* (lib/loaders/kmhfr_facility_loader.py): _make_request sends the         *)
(* request, authenticates and calls itself again while the server answers  *)
(* with an unauthenticated status.  The server answers as it likes, or not *)
(* at all (status 0: the session raises).                                  *)
(***************************************************************************)
unauthenticated_status_codes == {401, 403, 500}

StatusCodes == {200, 302, 401, 403, 404, 500}

MaxRetries == 3

_is_successful_res(status) == 200 <= status /\ status < 400

\* The predicates a caller passes: the default and one that takes 200 only.
ValidResPredicates == {"_is_successful_res", "is_ok"}

Valid(predicate, status) ==
    IF predicate = "_is_successful_res" THEN _is_successful_res(status)
    ELSE status = 200

AuthenticationLoop == "Authentication loop detected. Exiting."

\* _make_request retrying while remaining_retries is positive only.
_make_request_OneRetryLess(status, predicate, remaining) ==
    IF status \in unauthenticated_status_codes /\ remaining >= 1
    THEN "authenticate"
    ELSE IF status \in unauthenticated_status_codes
    THEN AuthenticationLoop
    ELSE IF ~Valid(predicate, status)
    THEN "Server returned an invalid response."
    ELSE "return"

\* What _make_request does with the response to the request.
_make_request(status, predicate, remaining) ==
    IF status \in unauthenticated_status_codes /\ remaining >= 0
    THEN "authenticate"
    ELSE IF status \in unauthenticated_status_codes /\ remaining < 0
    THEN AuthenticationLoop
    ELSE IF ~Valid(predicate, status)
    THEN "Server returned an invalid response."
    ELSE "return"

InitRequest ==
    /\ rpc = "request"
    /\ retries \in -1..MaxRetries
    /\ remaining_retries = retries
    /\ valid_res_predicate \in ValidResPredicates
    /\ _is_disposed \in BOOLEAN
    /\ _auth \in {"_NoAuth", "_Authenticated"}
    /\ responses = <<>>
    /\ tokens = 0
    /\ res = 0
    /\ request_raised = ""
    /\ NoLowering
    /\ NoCompilation
    /\ NoWorkflow
    /\ NoExpression
    /\ NoLoad

\* The call ends with an error.
RequestRaises(message) ==
    /\ rpc' = "raised"
    /\ request_raised' = message
    /\ UNCHANGED <<remaining_retries, _auth, tokens, res>>

\* _make_request up to its return, its error or its call of _authenticate:
\* the request is sent with the current credentials.
request ==
    /\ rpc = "request"
    /\ IF _is_disposed
       THEN RequestRaises("ResourceDisposedError") /\ UNCHANGED responses
       ELSE \E status \in StatusCodes \cup {0} :
              IF status = 0
              THEN RequestRaises("RequestException") /\ UNCHANGED responses
              ELSE /\ responses' = Append(responses, status)
                   /\ LET outcome == _make_request(status, valid_res_predicate,
                                                   remaining_retries)
                      IN  CASE outcome = "authenticate" ->
                                  /\ rpc' = "authenticate"
                                  /\ UNCHANGED <<remaining_retries, _auth,
                                                 tokens, res, request_raised>>
                            [] outcome = "return" ->
                                  /\ rpc' = "returned"
                                  /\ res' = status
                                  /\ UNCHANGED <<remaining_retries, _auth,
                                                 tokens, request_raised>>
                            [] OTHER ->
                                  RequestRaises(outcome)
    /\ UNCHANGED <<retries, valid_res_predicate, _is_disposed>>
    /\ UNCHANGED <<qvars, cvars, wvars, evars, lvars>>

\* _authenticate and the recursive call of _make_request with one retry
\* less.
_authenticate ==
    /\ rpc = "authenticate"
    /\ \E status \in StatusCodes \cup {0} :
        IF status = 0
        THEN RequestRaises("RequestException")
        ELSE IF status # 200
        THEN /\ rpc' = "raised"
             /\ request_raised' = "Failed to authenticate."
             /\ tokens' = tokens + 1
             /\ UNCHANGED <<remaining_retries, _auth, res>>
        ELSE /\ _auth' = "_Authenticated"
             /\ tokens' = tokens + 1
             /\ remaining_retries' = remaining_retries - 1
             /\ rpc' = "request"
             /\ UNCHANGED <<res, request_raised>>
    /\ UNCHANGED <<retries, valid_res_predicate, _is_disposed, responses>>
    /\ UNCHANGED <<qvars, cvars, wvars, evars, lvars>>

NextRequest ==
    \/ request
    \/ _authenticate

SpecRequest == InitRequest /\ [][NextRequest]_vars

\* Every exchange with the server is made with a connect and a read
\* timeout: it ends, with a response or with an exception.
SpecRequestFair == SpecRequest /\ WF_vars(NextRequest)

(***************************************************************************)
(* PROPERTIES.                                                             *)
(***************************************************************************)
\* The indices of the records named `name`.
Positions(records, name) ==
    {i \in 1..Len(records) : records[i].name = name}

\* The calculation cell of the question's score record.
ScoreCalculation ==
    LET at == Positions(item.records, question.id \o "_SCORE")
    IN  IF at = {} THEN "" ELSE item.records[CHOOSE i \in at : TRUE].calculation

\* The last rule read from the scoring string.
LastRule == question.scoring_logic[Len(question.scoring_logic)]

\* The (condition, then) pairs of the nested ifs of an expression, outermost
\* first, and the expression left in the innermost else.
RECURSIVE IfSpine(_)
IfSpine(e) ==
    IF e.k = "If"
    THEN <<[conditional_expr |-> e.a[1], then_expr |-> e.a[2]]>>
         \o IfSpine(e.a[3])
    ELSE <<>>

RECURSIVE InnermostElse(_)
InnermostElse(e) == IF e.k = "If" THEN InnermostElse(e.a[3]) ELSE e

\* C1: the records a lowered question returns start with the relevance gate
\* {q}_RELEVANCE, followed by at least one body record, followed by
\* {q}_SCORE, {q}_INT_SCORE and {q}_MAX_SCORE in that order; each of the
\* four names occurs exactly once.
C1_FiveFixedRecords ==
    pc = "done" =>
        /\ item.raised = ""
        /\ Positions(item.records, question.id \o "_RELEVANCE") = {1}
        /\ \E s \in 3..Len(item.records) :
            /\ Positions(item.records, question.id \o "_SCORE") = {s}
            /\ \E i \in (s + 1)..Len(item.records) :
                /\ Positions(item.records, question.id \o "_INT_SCORE") = {i}
                /\ \E m \in (i + 1)..Len(item.records) :
                     Positions(item.records, question.id \o "_MAX_SCORE") = {m}

\* A compound question whose sub-questions bring score records of their own.
C1_Witness ==
    /\ pc = "done"
    /\ question.question_type = "TEXT"
    /\ Len(question.sub_questions) = 2
    /\ Len(item.records) > 12

\* C4: the rules are folded right to left.  With an outer else every rule
\* contributes one if, the first rule outermost, and the supplied else is
\* the innermost else.  Without an outer else there are at least two rules,
\* the first n-1 contribute one if each, the first outermost, and the then
\* of the last rule is the innermost else: its condition is not emitted.
C4_FoldRightToLeft ==
    (pc \in {"parsed", "emit", "done"} /\ ~NoScoringLogic(question)) =>
        LET n == Len(scoring_expressions)
        IN  /\ n = Len(question.scoring_logic)
            /\ else_expr # None =>
                /\ IfSpine(score.value) = scoring_expressions
                /\ InnermostElse(score.value) = else_expr
            /\ else_expr = None =>
                /\ n >= 2
                /\ IfSpine(score.value) = SubSeq(scoring_expressions, 1, n - 1)
                /\ InnermostElse(score.value) = scoring_expressions[n].then_expr

\* Three rules folded without an outer else.
C4_Witness ==
    /\ pc = "emit"
    /\ else_expr = None
    /\ Len(scoring_expressions) = 3
    /\ Len(IfSpine(score.value)) = 2

\* The case of C5: a scoring string of one rule, walked without error, and
\* no outer else; parse_question_scoring_logic has gone past its length check.
SingleRuleNoElse ==
    /\ else_expr = None
    /\ Len(question.scoring_logic) = 1
    /\ Len(scoring_expressions) = 1
    /\ pc # "parse"

WrongForm ==
    /\ question.scoring_logic # <<>>
    /\ \/ LastRule.form = "if_bool" /\ question.question_type # "BOOL"
       \/ LastRule.form = "if_count"
            /\ question.question_type \notin {"MULTI", "COUNT"}
       \/ LastRule.form = "if_range" /\ question.question_type # "MULTI"
       \/ LastRule.form = "if_selection" /\ question.question_type # "SELECT"

BadTerm(term) == term.PERCENT # (question.question_type = "PERC")

\* C7: every term of a comparison rule is checked.  A rule with a term
\* without '%' on a PERC question, or with '%' on a question of another
\* kind, never yields a (condition, then) pair, and its walk ends with a
\* MetadataExpressionSyntaxError naming the question id, wherever in the
\* rule the term stands.
C7_EveryTermChecked ==
    /\ \A i \in 1..Len(scoring_expressions) :
        question.scoring_logic[i].form = "if_comparison" =>
            \A k \in 1..Len(question.scoring_logic[i].terms) :
                ~BadTerm(question.scoring_logic[i].terms[k])
    /\ ( /\ pc = "failed"
         /\ Len(scoring_expressions) < Len(question.scoring_logic)
         /\ LastRule.form = "if_comparison"
         /\ \E k \in 1..Len(LastRule.terms) : BadTerm(LastRule.terms[k]) )
       => score = Raised("MetadataExpressionSyntaxError", TRUE)

\* The third term of a rule is rejected after the first two were combined.
C7_Witness ==
    /\ pc = "failed"
    /\ score.raised = "MetadataExpressionSyntaxError"
    /\ LastRule.form = "if_comparison"
    /\ Len(LastRule.terms) = 3
    /\ ~BadTerm(LastRule.terms[1])
    /\ ~BadTerm(LastRule.terms[2])
    /\ BadTerm(LastRule.terms[3])
    /\ listener._conditional_expr.k \in {"And", "Or"}

\* C8 as stated: a BOOL question without na_option whose scoring string is
\* the rule `If Y = Red` is lowered, and its score record's calculation is
\* if(not(selected(${q}, 'yes')), 'red', 'gray').
C8_BoolRuleCalculation ==
    ( /\ question.question_type = "BOOL"
      /\ ~question.na_option
      /\ else_expr = None
      /\ question.scoring_logic =
            <<Rule("if_bool", "Y", <<>>, <<>>, <<>>, "Red")>>
      /\ pc \in {"failed", "done"} )
    => /\ pc = "done"
       /\ ScoreCalculation
            = "if(not(selected(${S1_Q1}, 'yes')), 'red', 'gray')"

\* The scoring string `If >10% = Red ; If >5% and =<10% = Yellow ;
\* If <5% = Green` of a PERC question, lowered.
PercExample ==
    /\ question.question_type = "PERC"
    /\ question.scoring_logic =
        <<Rule("if_comparison", "", <<>>, <<Term(">", 10, TRUE)>>, <<>>, "Red"),
          Rule("if_comparison", "", <<>>,
               <<Term(">", 5, TRUE), Term("=<", 10, TRUE)>>, <<"and">>,
               "Yellow"),
          Rule("if_comparison", "", <<>>, <<Term("<", 5, TRUE)>>, <<>>,
               "Green")>>
    /\ pc = "done"

\* C9 as stated: the terms of the compound comparison in source order, each
\* parenthesised, the numbers as written.
C9_SourceOrderParenthesised ==
    PercExample =>
        ScoreCalculation
          = "if(number(${S1_Q1}) > 10, 'red', if((number(${S1_Q1}) > 5) and (number(${S1_Q1}) <= 10), 'yellow', 'green'))"

\* C9, as the code has it: the later term is the left operand of `and`, no
\* term is parenthesised and the numbers are rendered as floats.
C9_ReverseOrderUnparenthesised ==
    PercExample =>
        ScoreCalculation
          = "if(number(${S1_Q1}) > 10.0, 'red', if(number(${S1_Q1}) <= 10.0 and number(${S1_Q1}) > 5.0, 'yellow', 'green'))"

C9_Witness ==
    /\ PercExample
    /\ Len(question.sub_questions) = 2
    /\ Len(item.records) > 5

\* The scoring string `If 3-5 = Yellow ; If >5 = Green` of a MULTI question,
\* lowered.
MultiExample ==
    /\ question.question_type = "MULTI"
    /\ question.scoring_logic =
        <<Rule("if_range", "", <<3, 5>>, <<>>, <<>>, "Yellow"),
          Rule("if_comparison", "", <<>>, <<Term(">", 5, FALSE)>>, <<>>,
               "Green")>>
    /\ pc = "done"

\* C10 as stated: both rules contribute an if, the range bounds are
\* parenthesised and the terminal else is gray.
C10_BothRulesAndGray ==
    MultiExample =>
        ScoreCalculation
          = "if((count-selected(${S1_Q1}) >= 3) and (count-selected(${S1_Q1}) <= 5), 'yellow', if(count-selected(${S1_Q1}) > 5, 'green', 'gray'))"

\* C10, as the code has it: only the first rule contributes an if, the range
\* bounds are not parenthesised and the terminal else is the then of the
\* last rule, green.
C10_FirstRuleAndGreen ==
    MultiExample =>
        ScoreCalculation
          = "if(count-selected(${S1_Q1}) >= 3 and count-selected(${S1_Q1}) <= 5, 'yellow', 'green')"

C10_Witness ==
    /\ MultiExample
    /\ Len(question.sub_questions) = 2
    /\ Len(item.choices) = 2

\* No non-empty name occurs twice among the records.
NamesUnique(records) ==
    \A i, j \in 1..Len(records) :
        (i # j /\ records[i].name # "") => records[i].name # records[j].name

\* C2 as stated: the compilation of a well-formed checklist succeeds and no
\* non-empty record name occurs twice in its survey sheet.
C2_CompilesWithUniqueNames ==
    cpc = "returned" =>
        /\ form.raised = ""
        /\ NamesUnique(form.survey)

\* C3 as stated: two compilations of the same checklist yield the same
\* survey records, the same choices in the same order and the same pairing
\* of the option labels with their generated names.
C3_Deterministic ==
    cpc = "done" =>
        \A i, j \in 1..Len(forms) : forms[i] = forms[j]

\* The scoring string `If select 1 or 3 = Green` of a SELECT question, parsed
\* with an outer else.
SelectExample ==
    /\ question.question_type = "SELECT"
    /\ question.options_set = OptionTexts
    /\ else_expr = CEE_SCORE_GRAY
    /\ question.scoring_logic =
        <<Rule("if_selection", "", <<1, 3>>, <<>>, <<>>, "Green")>>
    /\ pc \in {"failed", "parsed"}

\* C11 as stated: the rule `If select 1 or 3 = Green` of a SELECT question,
\* parsed with the outer else gray, yields
\* if(selected(${q}, '{q}_1') or selected(${q}, '{q}_3'), 'green', 'gray').
C11_SelectedChainedWithOr ==
    SelectExample =>
        /\ pc = "parsed"
        /\ score.raised = ""
        /\ eval(score.value)
            = "if(selected(${S1_Q1}, 'S1_Q1_1') or selected(${S1_Q1}, 'S1_Q1_3'), 'green', 'gray')"

\* The record of the lowered question named `name`.
RecordNamed(name) ==
    item.records[CHOOSE i \in Positions(item.records, name) : TRUE]

\* The question was lowered and its records returned.
Lowered == pc = "done" /\ item.raised = ""

\* C12: the calculation of {q}_MAX_SCORE is 0 for a question without scoring
\* rule, otherwise if(${q}_RELEVANCE = 'yes', 3, 0) when na_option is set and
\* 3 when it is not; its default is 0 in the three cases.
C12_MaxScoreCalculation ==
    Lowered =>
        LET max == RecordNamed(question.id \o "_MAX_SCORE")
        IN  /\ max.type = "calculate"
            /\ max.default = "0"
            /\ max.calculation =
                 IF question.scoring_logic = <<>> THEN "0"
                 ELSE IF question.na_option
                 THEN "if(${S1_Q1_RELEVANCE} = 'yes', 3, 0)"
                 ELSE "3"

C12_Witness ==
    /\ Lowered
    /\ question.scoring_logic # <<>>
    /\ question.na_option
    /\ RecordNamed(question.id \o "_MAX_SCORE").calculation
         = "if(${S1_Q1_RELEVANCE} = 'yes', 3, 0)"

\* C13 as stated: the body row of a lowered question, the record after its
\* relevance gate, carries the relevant cell
\* if(<short_circuit>, true(), ${q}_RELEVANCE = 'yes'), the short circuit
\* being false() when na_option is set and true() when it is not.
C13_RelevantTrueFalseLiterals ==
    Lowered =>
        item.records[2].relevant =
            "if(" \o (IF question.na_option THEN "false()" ELSE "true()")
                \o ", true(), ${S1_Q1_RELEVANCE} = 'yes')"

\* C14: the choices a lowered MULTI question contributes are one row per
\* sub-question, in the order of the sub-questions, with the question's id as
\* list name and the sub-question's id as name; no record is named after a
\* sub-question.
C14_MultiChoices ==
    (Lowered /\ question.question_type = "MULTI") =>
        /\ Len(item.choices) = Len(question.sub_questions)
        /\ \A k \in 1..Len(item.choices) :
            /\ item.choices[k].list_name = question.id
            /\ item.choices[k].name = question.sub_questions[k].id
        /\ \A k \in 1..Len(question.sub_questions) :
            Positions(item.records, question.sub_questions[k].id) = {}

C14_Witness ==
    /\ Lowered
    /\ question.question_type = "MULTI"
    /\ Len(question.sub_questions) = 2
    /\ item.choices[2].name = "S1_Q1_2"
    /\ Len(item.records) = 5

\* C15: the choices a lowered SELECT question contributes are one row per
\* option, all with the question's id as list name, named {q}_1 .. {q}_|O|
\* in this order, the k-th row labelled with the k-th option of one
\* iteration of the option set.
C15_SelectChoices ==
    (Lowered /\ question.question_type = "SELECT") =>
        /\ Len(item.choices) = Cardinality(question.options_set)
        /\ \A k \in 1..Len(item.choices) :
            /\ item.choices[k].list_name = question.id
            /\ item.choices[k].name = question.id \o "_" \o ToString(k)
        /\ \E order \in IterationOrders(question.options_set) :
            \A k \in 1..Len(item.choices) :
                item.choices[k].label = Str(escape_markdown(order[k]))

C15_Witness ==
    /\ Lowered
    /\ question.question_type = "SELECT"
    /\ question.options_set = OptionTexts
    /\ item.choices[1].label = "B\\_"
    /\ item.choices[3].name = "S1_Q1_3"

\* The rank of a list of the choices sheet: counties, sub_counties, wards
\* and facilities in this order, the lists of the checklist at `others`.
ListRank(list_name, others) ==
    CASE list_name = "counties" -> 1
      [] list_name = "sub_counties" -> 2
      [] list_name = "wards" -> 3
      [] list_name = "facilities" -> 4
      [] OTHER -> others

\* The choices of every form handed to a writer follow one another by the
\* rank of their list.
RankedChoices(others) ==
    \A f \in 1..Len(written) :
        \A i, j \in 1..Len(written[f].choices) :
            i < j => ListRank(written[f].choices[i].list_name, others)
                        <= ListRank(written[f].choices[j].list_name, others)

\* C16 as stated: in the choices of a form handed to a writer the rows of
\* counties come first, then those of sub_counties, then those of wards, and
\* every other row after them.
C16_OrgUnitsOnTop == RankedChoices(4)

\* C16, corrected: the choices of a form handed to a writer start with the
\* six default rows, go on with the rows of the questions, then hold the
\* rows of counties, of sub_counties and of wards in this order, and end
\* with the rows of the facilities.
C16_OrgUnitsAfterChecklistChoices ==
    /\ RankedChoices(0)
    /\ \A f \in 1..Len(written) :
        SubSeq(written[f].choices, 1, Len(_DEFAULT_CHOICES)) = _DEFAULT_CHOICES

C16_Witness ==
    /\ wpc = "written"
    /\ Len(written) = 1
    /\ Len(raw_data[2]) = 3
    /\ written[1].choices[7].list_name = "C_S1_Q2"
    /\ written[1].choices[9].list_name = "counties"
    /\ written[1].choices[Len(written[1].choices)].list_name = "facilities"

\* The text "0 + number(${q1<suffix>}) + ... + number(${qk<suffix>})" over
\* the first k of the questions.
RECURSIVE SumText(_, _, _)
SumText(questions, suffix, k) ==
    IF k = 0 THEN "0"
    ELSE SumText(questions, suffix, k - 1)
         \o " + number(${" \o questions[k].id \o suffix \o "})"

\* The checklist was compiled and its form returned.
Compiled == cpc = "returned" /\ form.raised = ""

\* The one record of the compiled survey named `name` has this calculation
\* and this default.
SurveyCalculates(name, calculation, default) ==
    /\ Cardinality(Positions(form.survey, name)) = 1
    /\ \A i \in Positions(form.survey, name) :
        /\ form.survey[i].type = "calculate"
        /\ form.survey[i].calculation = calculation
        /\ form.survey[i].default = default

\* C17: the calculation of {s}_INT_SCORE is 0 plus number(${q}_INT_SCORE)
\* for each question q of the section, in order and once each, and nothing
\* else; that of {s}_MAX_SCORE is the same sum over number(${q}_MAX_SCORE),
\* and its default is 1.
C17_SectionScoreSums ==
    Compiled =>
        \A s \in 1..Len(checklist.sections) :
            LET section == checklist.sections[s]
                n == Len(section.questions)
            IN  /\ SurveyCalculates(Str(section.id) \o "_INT_SCORE",
                                    SumText(section.questions, "_INT_SCORE", n),
                                    "0")
                /\ SurveyCalculates(Str(section.id) \o "_MAX_SCORE",
                                    SumText(section.questions, "_MAX_SCORE", n),
                                    "1")

C17_Witness ==
    /\ Compiled
    /\ Len(checklist.sections) = 2
    /\ SurveyCalculates("C_S1_INT_SCORE",
                        "0 + number(${C_S1_Q3_INT_SCORE}) + number(${C_S1_Q4_INT_SCORE})",
                        "0")
    /\ SurveyCalculates("C_S2_MAX_SCORE",
                        "0 + number(${C_S2_Q1_MAX_SCORE}) + number(${C_S2_Q2_MAX_SCORE})",
                        "1")

\* The position after the records of the first k questions, the first of
\* which starts at `pos`: every question's records start with its relevance
\* gate and end with its {q}_MAX_SCORE, after which a PERC question and a
\* question of a generic kind with sub-questions close their group.  0 when the records are not so.
RECURSIVE AfterQuestions(_, _, _)
AfterQuestions(questions, k, pos) ==
    IF k = 0 THEN pos
    ELSE CHOOSE r \in
            {IF p = 0 \/ p > Len(form.survey) THEN 0
             ELSE IF form.survey[p].name # questions[k].id \o "_RELEVANCE" THEN 0
             ELSE LET ends == {e \in p..Len(form.survey) :
                                 form.survey[e].name
                                    = questions[k].id \o "_MAX_SCORE"}
                  IN  IF ends = {} THEN 0
                      ELSE (IF \/ questions[k].question_type = "PERC"
                               \/ questions[k].sub_questions # <<>>
                                  /\ questions[k].question_type # "MULTI"
                            THEN 2 ELSE 1)
                           + CHOOSE e \in ends : \A x \in ends : e <= x :
                p \in {AfterQuestions(questions, k - 1, pos)}} : TRUE

\* The names of the notes and the trigger that follow a section's begin_group.
PreludeNames(section) ==
    (IF section.standard # <<>> THEN <<Str(section.id) \o "_STANDARD">>
     ELSE <<>>)
    \o (IF section.instructions # <<>> THEN <<Str(section.id) \o "_INSTRUCTION">>
        ELSE <<>>)
    \o (IF section.na_option THEN <<Str(section.id) \o "_NA">> ELSE <<>>)

\* The records of the s-th section in the compiled survey: the begin_group
\* with this label, the prelude, the questions in order, the five closing
\* records and the end_group, with which the section ends.
SectionRecords(s, label) ==
    LET section == checklist.sections[s]
        id == Str(section.id)
        prelude == PreludeNames(section)
        closing == <<id \o "_COMMENTS", id \o "_INT_SCORE", id \o "_MAX_SCORE",
                     id \o "_PERCENTAGE_SCORE", id \o "_SCORE", "">>
    IN  /\ Cardinality(Positions(form.survey, id)) = 1
        /\ \A b \in Positions(form.survey, id) :
            /\ form.survey[b].type = "begin_group"
            /\ form.survey[b].appearance = "field-list"
            /\ form.survey[b].label = label
            /\ \A k \in 1..Len(prelude) : form.survey[b + k].name = prelude[k]
            /\ section.standard # <<>> =>
                    form.survey[b + 1].type = "note"
            /\ section.na_option =>
                    form.survey[b + Len(prelude)].type = "trigger"
            /\ Positions(form.survey, id \o "_STANDARD") # {}
                    <=> section.standard # <<>>
            /\ Positions(form.survey, id \o "_INSTRUCTION") # {}
                    <=> section.instructions # <<>>
            /\ Positions(form.survey, id \o "_NA") # {} <=> section.na_option
            /\ \A c \in {AfterQuestions(section.questions,
                                        Len(section.questions),
                                        b + Len(prelude) + 1)} :
                /\ c > b + Len(prelude) + 1
                /\ c + 5 <= Len(form.survey)
                /\ \A k \in 1..6 : form.survey[c + k - 1].name = closing[k]
                /\ form.survey[c + 5].type = "end_group"
                /\ IF s < Len(checklist.sections)
                   THEN form.survey[c + 6].name
                            = Str(checklist.sections[s + 1].id)
                   ELSE c + 5 = Len(form.survey)

\* C18 as stated: the records of a lowered section are in the order above
\* and the label of its begin_group is exactly "SEC #: {sid} {title}".
C18_SectionRecordsPlainLabel ==
    Compiled =>
        \A s \in 1..Len(checklist.sections) :
            SectionRecords(s, <<"SEC #: C_S1 T*", "SEC #: C_S2 U">>[s])

\* C18, corrected: the records of a lowered section are in the order above
\* and the label of its begin_group is "SEC #: {sid} {title}" with every
\* '_', '*' and '#' of it, the '#' of "SEC #:" included, behind a backslash.
C18_SectionRecordsEscapedLabel ==
    Compiled =>
        \A s \in 1..Len(checklist.sections) :
            SectionRecords(s, <<"SEC \\#: C\\_S1 T\\*", "SEC \\#: C\\_S2 U">>[s])

C18_Witness ==
    /\ Compiled
    /\ Len(checklist.sections) = 2
    /\ checklist.sections[2].instructions # <<>>
    /\ checklist.sections[2].standard = <<>>
    /\ Len(checklist.sections[1].questions) = 2
    /\ SectionRecords(1, "SEC \\#: C\\_S1 T\\*")
    /\ SectionRecords(2, "SEC \\#: C\\_S2 U")


\* The call built a node of the binary operator over the two operands.
BuiltOperator ==
    /\ ~IsRaise(built)
    /\ built.a = <<call[2], call[3]>>
    /\ eval(built) = eval(call[2]) \o built.s \o eval(call[3])

\* An operand that is a Text or a Bool and not a Number.
TextOrBool(e) == (IsTextExpr(e) \/ IsBoolExpr(e)) /\ ~IsNumberExpr(e)

BreaksKindInvariant(q) ==
    \/ /\ q.question_type = "PERC"
       /\ \/ Len(q.sub_questions) # 2
          \/ {q.sub_questions[i].question_type : i \in 1..Len(q.sub_questions)}
                # {"NUM", "DEN"}
    \/ q.question_type = "MULTI" /\ q.sub_questions = <<>>
    \/ q.question_type = "SELECT" /\ q.options_set = {}

\* The serializer was called on a question that breaks the invariant of its
\* kind, and went past its sanity checks.
BrokenQuestionLowered ==
    else_expr = None /\ pc # "serialize" /\ BreaksKindInvariant(question)

\* C20: lowering a question that breaks the invariant of its kind fails
\* before any record is built, with an error naming the question id, and
\* returns no record.
C20_KindInvariantErrorNamesQuestion ==
    BrokenQuestionLowered =>
        /\ pc = "failed"
        /\ item.raised # ""
        /\ item.names_id
        /\ item.records = <<>>

\* The part of C20 the code keeps: lowering fails before any record is built
\* and returns none, and the error of a PERC or SELECT question names the
\* question id; the error of a MULTI question is a bare AssertionError.
KindInvariantRechecked ==
    BrokenQuestionLowered =>
        /\ pc = "failed"
        /\ item.records = <<>>
        /\ question.question_type # "MULTI" =>
                item.raised = "ValueError" /\ item.names_id
        /\ question.question_type = "MULTI" =>
                item.raised = "AssertionError" /\ ~item.names_id

\* A PERC question with three sub-questions was refused.
ThreePartPercRefused ==
    /\ BrokenQuestionLowered
    /\ question.question_type = "PERC"
    /\ Len(question.sub_questions) = 3
    /\ item.raised = "ValueError"

\* The loaded questions whose id is the section's id, '_' and a suffix, and
\* whose kind is a parent kind, in the order they were loaded.
TopLevelQuestions(section_id) ==
    SelectSeq([j \in 1..Len(_questions) |-> j],
              LAMBDA j :
                /\ Len(_questions[j].id) > Len(section_id)
                /\ \A i \in 1..Len(section_id) :
                        _questions[j].id[i] = section_id[i]
                /\ _questions[j].id[Len(section_id) + 1] = "_"
                /\ _questions[j].question_type
                     \in {"BOOL", "COUNT", "MULTI", "PERC", "RATE", "SELECT",
                          "TEXT"})

\* load() went past the linking of the sections.
SectionsLinked == lpc \in {"checklists", "return", "returned"}

\* C21: once the sections are linked, and so after load() returns, the
\* questions of every section are the loaded questions whose id is
\* {section_id}_ + suffix and whose kind is a parent kind, and there is one
\* at least; a section without such a question makes load() fail with
\* InvalidMetadataError.
C21_SectionQuestions ==
    /\ SectionsLinked =>
        \A s \in 1..Len(_sections) :
            /\ _sections[s].questions # <<>>
            /\ _sections[s].questions = TopLevelQuestions(_sections[s].id)
    /\ (\E s \in 1..Len(_sections) :
            TopLevelQuestions(_sections[s].id) = <<>>)
        => lpc = "failed" /\ load_raised = "InvalidMetadataError"

\* load() returned a section C_1 holding its MULTI question and not the
\* question's CHOICE, and a section whose id cell had no space to strip
\* holding the question whose id cell had one.
C21_Witness ==
    /\ lpc = "returned"
    /\ \E s \in 1..Len(_sections) :
        /\ _sections[s].id = <<"C", "_", "1">>
        /\ Len(_sections[s].questions) = 1
        /\ _questions[_sections[s].questions[1]].question_type = "MULTI"
    /\ \E j \in 1..Len(_questions) : _questions[j].question_type = "CHOICE"
    /\ \E s \in 1..Len(_sections) :
        /\ _sections[s].id = <<"C", "_", "2">>
        /\ _questions[_sections[s].questions[1]].id
                = <<"C", "_", "2", "_", "1">>

\* load() failed on a section without top-level question.
SectionWithoutQuestionRefused ==
    /\ lpc = "failed"
    /\ _sections # <<>>
    /\ \E s \in 1..Len(_sections) : TopLevelQuestions(_sections[s].id) = <<>>

\* The places a loaded question is attached at: the sections holding it as a
\* top-level question and the questions holding it as a sub-question.
PlacesOf(j) ==
    Cardinality({s \in 1..Len(_sections) :
                    \E i \in 1..Len(_sections[s].questions) :
                        _sections[s].questions[i] = j})
    + Cardinality({q \in 1..Len(_questions) :
                    \E i \in 1..Len(_questions[q].sub_questions) :
                        _questions[q].sub_questions[i] = j})

\* The checklists a loaded section belongs to.
ChecklistsOf(s) ==
    {c \in 1..Len(_checklists) :
        \E i \in 1..Len(_checklists[c].sections) :
            _checklists[c].sections[i] = s}

\* C22: when load() has returned, no question is attached at two places of
\* the tree (two sections, or a section and a MULTI or PERC question), and no
\* section belongs to two checklists.
C22_AttachedAtOnePlace ==
    lpc = "returned" =>
        /\ \A j \in 1..Len(_questions) : PlacesOf(j) <= 1
        /\ \A s \in 1..Len(_sections) : Cardinality(ChecklistsOf(s)) <= 1

\* What load() does keep: no question is a top-level question of two
\* sections whose ids are not a prefix of one another, and a sub-question of
\* a kind that is not a parent kind is attached to its parent only.
AttachedOnceUnlessNested ==
    lpc = "returned" =>
        /\ \A j \in 1..Len(_questions) :
            _questions[j].question_type \notin _PARENT_QUESTION_TYPES
                => PlacesOf(j) <= 1
        /\ \A s \in 1..Len(_sections), t \in 1..Len(_sections) :
            (\E i \in 1..Len(_sections[s].questions),
                k \in 1..Len(_sections[t].questions) :
                    _sections[s].questions[i] = _sections[t].questions[k])
                => \/ startswith(_sections[s].id, _sections[t].id)
                   \/ startswith(_sections[t].id, _sections[s].id)

\* load() returned a MULTI question whose TEXT sub-question is a top-level
\* question of the section as well.
SubQuestionAlsoTopLevel ==
    /\ lpc = "returned"
    /\ \E j \in 1..Len(_questions) :
        /\ _questions[j].question_type = "TEXT"
        /\ PlacesOf(j) = 2

\* load() returned a section that belongs to the checklists C and C_X.
SectionOfTwoChecklists ==
    /\ lpc = "returned"
    /\ \E s \in 1..Len(_sections) : Cardinality(ChecklistsOf(s)) = 2

\* The groups open after the first k records of the compiled survey.
RECURSIVE Depth(_)
Depth(k) ==
    IF k = 0 THEN 0
    ELSE Depth(k - 1)
         + (IF form.survey[k].type = "begin_group" THEN 1
            ELSE IF form.survey[k].type = "end_group" THEN -1 ELSE 0)

\* The compiled section ids.
SectionIds == {Str(checklist.sections[s].id) : s \in 1..Len(checklist.sections)}

\* The positions of the records that open a question's group.
QuestionGroups ==
    {k \in Len(_COVER_SHEET_RECORDS) + 1..Len(form.survey) :
        /\ form.survey[k].type = "begin_group"
        /\ form.survey[k].name \notin SectionIds}

\* C23: in a compiled survey no end_group comes before its begin_group, no
\* group is open at the end of the cover sheet, at the end of a section and
\* at the end of the sheet, and the group of a PERC or compound question is
\* opened inside its section's group and closed before it.
C23_GroupsNested ==
    Compiled =>
        /\ \A k \in 1..Len(form.survey) : Depth(k) >= 0
        /\ Depth(Len(_COVER_SHEET_RECORDS)) = 0
        /\ Depth(Len(form.survey)) = 0
        /\ \A k \in 1..Len(form.survey) :
            form.survey[k].name \in SectionIds =>
                /\ form.survey[k].type = "begin_group"
                /\ Depth(k) = 1
        /\ \A k \in 2..Len(form.survey) :
            form.survey[k - 1].name \in {id \o "_SCORE" : id \in SectionIds} =>
                /\ form.survey[k].type = "end_group"
                /\ Depth(k) = 0
        /\ \A k \in QuestionGroups :
            /\ Depth(k) >= 2
            /\ \E e \in k + 1..Len(form.survey) :
                /\ Depth(e) = Depth(k) - 1
                /\ \A i \in k..e : Depth(i) >= 1

\* A compiled survey with a compound question's group holding a PERC
\* question's group, three groups deep, and a PERC question in the section
\* before.
C23_Witness ==
    /\ Compiled
    /\ \E k \in QuestionGroups : Depth(k) = 3
    /\ \E k \in QuestionGroups :
        form.survey[k].name = "C_S1_Q3_PERC_GRP" /\ Depth(k) = 2
    /\ Depth(Len(form.survey)) = 0

\* The comparisons a condition joins with and/or, left to right, and the
\* operators between them.
RECURSIVE Leaves(_)
Leaves(e) ==
    IF e.k \in {"And", "Or"} THEN Leaves(e.a[1]) \o Leaves(e.a[2]) ELSE <<e>>

RECURSIVE Joiners(_)
Joiners(e) ==
    IF e.k \in {"And", "Or"}
    THEN Joiners(e.a[1]) \o <<IF e.k = "And" THEN "and" ELSE "or">>
         \o Joiners(e.a[2])
    ELSE <<>>

\* The comparison is the one of the term: same operator, same number.
IsTerm(e, term) ==
    /\ e.k = (CASE term.CMP \in {">=", "u2265"} -> "Ge"
                [] term.CMP = ">" -> "Gt"
                [] term.CMP \in {"=<", "u2264"} -> "Le"
                [] term.CMP = "<" -> "Lt"
                [] OTHER -> "")
    /\ (IF e.a[2].k = "IntF" THEN e.a[2].a[1].n ELSE e.a[2].n) = term.DIGITS

\* The walk of the last rule read is over and the rule, a comparison, was
\* accepted.
ComparisonWalked ==
    /\ pc = "parse"
    /\ question.scoring_logic # <<>>
    /\ Len(scoring_expressions) = Len(question.scoring_logic)
    /\ LastRule.form = "if_comparison"

XText(s) == [t |-> "text", s |-> s, n |-> 0]

XNum(n) == [t |-> "num", s |-> "", n |-> n]

XNaN == [t |-> "nan", s |-> "", n |-> 0]

XBool(b) == [t |-> "bool", s |-> "", n |-> IF b THEN 1 ELSE 0]

Blank == XText("")

XNumber(v) ==
    IF v.t = "num" THEN v ELSE IF v.t = "bool" THEN XNum(v.n) ELSE XNaN

XCompare(k, a, b) ==
    IF a.t = "text" /\ b.t = "text"
    THEN XBool(IF k = "Eq" THEN a.s = b.s ELSE IF k = "Ne" THEN a.s # b.s
               ELSE FALSE)
    ELSE LET x == XNumber(a)
             y == XNumber(b)
         IN  IF x.t = "nan" \/ y.t = "nan" THEN XBool(k = "Ne")
             ELSE XBool(CASE k = "Eq" -> x.n = y.n
                          [] k = "Ne" -> x.n # y.n
                          [] k = "Ge" -> x.n >= y.n
                          [] k = "Gt" -> x.n > y.n
                          [] k = "Le" -> x.n <= y.n
                          [] k = "Lt" -> x.n < y.n)

\* The value of an expression's rendered cell for question env.id, whose
\* body holds env.answer, whose gate holds env.gate and whose score record
\* holds env.score.  The answer of a MULTI question is given by the number of
\* options selected.
RECURSIVE Value(_, _)
Value(e, env) ==
    CASE e.k = "String" -> XText(e.s)
      [] e.k \in {"Int", "Number"} -> XNum(e.n)
      [] e.k = "Boolean" -> XBool(e.s = "True")
      [] e.k = "Variable" ->
            (CASE e.s = env.id -> env.answer
               [] e.s = env.id \o "_RELEVANCE" -> XText(env.gate)
               [] e.s = env.id \o "_SCORE" -> env.score
               [] OTHER -> Blank)
      [] e.k = "Brackets" -> Value(e.a[1], env)
      [] e.k = "StringF" -> Value(e.a[1], env)
      [] e.k \in {"NumberF", "IntF"} -> XNumber(Value(e.a[1], env))
      [] e.k = "CountSelected" ->
            LET v == Value(e.a[1], env) IN IF v = Blank THEN XNum(0) ELSE v
      [] e.k = "Coalesce" ->
            LET v == Value(e.a[1], env)
            IN  IF v = Blank THEN Value(e.a[2], env) ELSE v
      [] e.k = "Not" -> XBool(Value(e.a[1], env).n = 0)
      [] e.k = "If" ->
            IF Value(e.a[1], env).n = 1 THEN Value(e.a[2], env)
            ELSE Value(e.a[3], env)
      [] e.k \in {"Eq", "Ne", "Ge", "Gt", "Le", "Lt"} ->
            XCompare(e.k, Value(e.a[1], env), Value(e.a[2], env))
      [] e.k \in {"And", "Or"} ->
            \* The cell is rendered without brackets: a disjunction of
            \* conjunctions of the terms, in the order of the rendering.
            LET terms == Leaves(e)
                ops == Joiners(e)
                starts == {1} \cup {i + 1 : i \in {j \in 1..Len(ops) : ops[j] = "or"}}
                Last(s) ==
                    LET ors == {j \in s..Len(ops) : ops[j] = "or"}
                    IN  IF ors = {} THEN Len(terms)
                        ELSE CHOOSE j \in ors : \A k \in ors : j <= k
            IN  XBool(\E s \in starts :
                        \A i \in s..Last(s) : Value(terms[i], env).n = 1)
      [] OTHER -> XNaN

\* The expression of the calculation of {q}_INT_SCORE.
IntScoreExpr(q) ==
    LET q_value == string(var(_get_question_score_record_id(q)))
    IN  if_(eq(q_value, str_("green")), THREE,
            if_(eq(q_value, str_("yellow")), TWO,
                if_(eq(q_value, str_("red")), ONE, ZERO)))

\* The expression of the calculation of {q}_MAX_SCORE.
MaxScoreExpr(q) ==
    LET q_value == string(var(_get_question_relevance_record_id(q)))
    IN  IF q.scoring_logic # <<>> /\ q.na_option
        THEN if_(eq(q_value, str_("yes")), THREE, ZERO)
        ELSE IF q.scoring_logic # <<>> THEN THREE
        ELSE ZERO

\* The answers a body is tried with.
AnswerValues == {0, 2, 4, 6, 10, 25}

\* What the gate and the body of a question can hold at run time: the gate
\* can be set to no only where it is shown, and the body is then not
\* relevant and blank.
Valuations(q) ==
    {[id |-> q.id, gate |-> "yes", answer |-> a, score |-> Blank] :
        a \in {Blank} \cup {XNum(n) : n \in AnswerValues}}
    \cup {[id |-> q.id, gate |-> "no", answer |-> Blank, score |-> Blank] :
            na \in {TRUE} \cap {q.na_option}}

\* The values of {q}_SCORE, {q}_INT_SCORE and {q}_MAX_SCORE of the question
\* lowered, under a valuation.
ScoreValue(v) ==
    IF score.value = None THEN XText("gray") ELSE Value(score.value, v)

IntScoreValue(v) ==
    Value(IntScoreExpr(question), [v EXCEPT !.score = ScoreValue(v)]).n

MaxScoreValue(v) == Value(MaxScoreExpr(question), v).n

\* The expressions evaluated are the ones of the cells.
CellsEvaluated ==
    /\ RecordNamed(question.id \o "_INT_SCORE").calculation
            = eval(IntScoreExpr(question))
    /\ RecordNamed(question.id \o "_MAX_SCORE").calculation
            = eval(MaxScoreExpr(question))
    /\ score.value # None =>
            RecordNamed(question.id \o "_SCORE").calculation = eval(score.value)

\* C25: for every question and every valuation of its answer and of its
\* relevance gate the value of {q}_INT_SCORE is at most the value of
\* {q}_MAX_SCORE.
C25_IntScoreWithinMax ==
    Lowered =>
        \A v \in Valuations(question) : IntScoreValue(v) <= MaxScoreValue(v)

\* While the gate says yes the integer score is within the maximum.
IntScoreWithinMaxWhileApplicable ==
    Lowered =>
        /\ CellsEvaluated
        /\ \A v \in Valuations(question) :
                v.gate = "yes" => IntScoreValue(v) <= MaxScoreValue(v)

\* A question marked not applicable scores 3 out of 0.
ScoredWhileNotApplicable ==
    /\ Lowered
    /\ question.na_option
    /\ \E v \in Valuations(question) :
        /\ v.gate = "no"
        /\ IntScoreValue(v) = 3
        /\ MaxScoreValue(v) = 0

\* The maximum of the question lowered can be other than 0; its score is a
\* compiled rule expression.
MaxCanBeNonZero == RecordNamed(question.id \o "_MAX_SCORE").calculation # "0"

ScoreIsCompiled == RecordNamed(question.id \o "_SCORE").calculation # "gray"

\* C26: the calculation of {q}_MAX_SCORE can be non-zero if and only if the
\* calculation of {q}_SCORE is a compiled rule expression and not the
\* literal gray, whatever the scoring_logic of the question, the empty
\* string included.
C26_ScoredAlike ==
    Lowered => (MaxCanBeNonZero <=> ScoreIsCompiled)

\* The two records agree for a question without scoring_logic and for one
\* whose scoring_logic holds rules.
ScoredAlikeUnlessEmptyString ==
    (Lowered /\ question.scoring_logic # <<EmptyRule>>) =>
        /\ MaxCanBeNonZero <=> ScoreIsCompiled
        /\ ScoreIsCompiled <=> question.scoring_logic # <<>>

\* A question whose scoring_logic is the empty string: a maximum of 3 and
\* the score gray.
EmptyStringScored ==
    /\ Lowered
    /\ question.scoring_logic = <<EmptyRule>>
    /\ ~question.na_option
    /\ RecordNamed(question.id \o "_MAX_SCORE").calculation = "3"
    /\ RecordNamed(question.id \o "_SCORE").calculation = "gray"

\* Rule i of the scoring string is a select rule; the option names it refers
\* to.
IsSelectRule(i) == question.scoring_logic[i].form = "if_selection"

OptionNamesOf(i) ==
    {build_select_option_name(question.id, question.scoring_logic[i].DIGITS[k]) :
        k \in 1..Len(question.scoring_logic[i].DIGITS)}

\* The names of the choice rows of list q generated for the question.
ChoiceNames ==
    {item.choices[c].name :
        c \in {d \in 1..Len(item.choices) :
                    item.choices[d].list_name = question.id}}

\* The select rule i names an option the question does not have.
IndexOutOfRange(i) ==
    \E k \in 1..Len(question.scoring_logic[i].DIGITS) :
        \/ question.scoring_logic[i].DIGITS[k] = 0
        \/ question.scoring_logic[i].DIGITS[k] > Cardinality(question.options_set)

SelectZeroRefused ==
    /\ pc = "failed"
    /\ question.question_type = "SELECT"
    /\ question.options_set # {}
    /\ IsSelectRule(1)
    /\ question.scoring_logic[1].DIGITS = <<0>>
    /\ score.raised = "TypeError"

\* No select rule is compiled at all.
NoSelectRuleCompiled ==
    \A i \in 1..Len(scoring_expressions) : ~IsSelectRule(i)

\* The rows of list list_name in the choices of a form.
RowsOf(f, list_name) ==
    {i \in 1..Len(f.choices) : f.choices[i].list_name = list_name}

\* No two rows of the list share a name.
UniqueNames(f, list_name) ==
    \A i, j \in RowsOf(f, list_name) :
        i # j => f.choices[i].name # f.choices[j].name

\* C28: in the choices of every form handed to a writer no two rows of
\* counties, of sub_counties, of wards or of facilities share a name,
\* whatever the facilities.
C28_UniqueChoiceNames ==
    \A f \in 1..Len(written) :
        \A list_name \in {"counties", "sub_counties", "wards", "facilities"} :
            UniqueNames(written[f], list_name)

\* The rows of facilities have unique names when the MFL codes of the
\* facilities are unique.
UniqueFacilitiesWhenCodesUnique ==
    (\A i, j \in 1..Len(raw_data[2]) :
        i # j => raw_data[2][i].mfl_code # raw_data[2][j].mfl_code) =>
        \A f \in 1..Len(written) : UniqueNames(written[f], "facilities")

\* A form was written in which two rows of the list share a name.
Duplicated(list_name) ==
    /\ wpc = "written"
    /\ \E f \in 1..Len(written) : ~UniqueNames(written[f], list_name)

\* Two counties whose names differ in case and in ' ' against '_'.
CountiesDuplicated == Duplicated("counties")

\* One sub-county name under two counties.
SubCountiesDuplicated == Duplicated("sub_counties")

WardsDuplicated == Duplicated("wards")

\* Two facilities with one MFL code.
FacilitiesDuplicated == Duplicated("facilities")

\* The text with one backslash before each '_', '*' and '#' of it.
RECURSIVE EscapedOnce(_)
EscapedOnce(text) ==
    IF text = <<>> THEN <<>>
    ELSE (IF Head(text) \in {"_", "*", "#"} THEN <<"\\", Head(text)>>
          ELSE <<Head(text)>>) \o EscapedOnce(Tail(text))

\* Every record of this name in the compiled survey has this label.
Labelled(name, label) ==
    /\ Positions(form.survey, name) # {}
    /\ \A i \in Positions(form.survey, name) : form.survey[i].label = label

\* The texts of a checklist and of its sections in the compiled form: the
\* title of the form, the label of each section and of its standard note
\* hold the text escaped once, the instructions note holds them escaped
\* `times` times.
SectionTexts(times) ==
    /\ form.settings.form_title = Str(EscapedOnce(checklist.name))
    /\ \A s \in 1..Len(checklist.sections) :
        LET section == checklist.sections[s]
            id == Str(section.id)
        IN  /\ Labelled(id, "SEC \\#: " \o Str(EscapedOnce(section.id))
                                \o " " \o Str(EscapedOnce(section.title)))
            /\ section.standard # <<>> =>
                Labelled(id \o "_STANDARD",
                         "**STANDARD:** " \o Str(EscapedOnce(section.standard)))
            /\ section.instructions # <<>> =>
                Labelled(id \o "_INSTRUCTION",
                         "_**Instructions:** "
                            \o Str(IF times = 1
                                   THEN EscapedOnce(section.instructions)
                                   ELSE EscapedOnce(
                                            EscapedOnce(section.instructions)))
                            \o "_")

\* C29: the name of the checklist and the title, the standard and the
\* instructions of every section reach their cell escaped exactly once: each
\* '_', '*' and '#' of the text is preceded by exactly one backslash.
C29_EscapedExactlyOnce == Compiled => SectionTexts(1)

\* The texts are escaped once, the instructions of a section twice.
InstructionsEscapedTwice == Compiled => SectionTexts(2)

\* The instructions 'i_' of section C_S1 in their note: two backslashes
\* before the '_'.
InstructionsNoteWritten ==
    /\ Compiled
    /\ checklist.sections[1].instructions = <<"i", "_">>
    /\ Labelled("C_S1_INSTRUCTION", "_**Instructions:** i\\\\__")
    /\ Labelled("C_S1_STANDARD", "**STANDARD:** s\\_")
    /\ form.settings.form_title = "M\\#1"

\* The call of _make_request is over.
RequestOver == rpc \in {"returned", "raised"}

\* The request was sent at most retries + 2 times and the loader
\* authenticated at most retries + 1 times; the authentication loop is
\* reported after exactly that many sends, all of them answered with an
\* unauthenticated status; a response is returned only if it is the last
\* one received, is not of an unauthenticated status and satisfies the
\* predicate.
RequestBounded ==
    rpc # "idle" =>
        /\ Len(responses) <= retries + 2
        /\ tokens <= retries + 1
        /\ request_raised = AuthenticationLoop =>
            /\ Len(responses) = retries + 2
            /\ tokens = retries + 1
            /\ \A i \in 1..Len(responses) :
                    responses[i] \in unauthenticated_status_codes
        /\ rpc = "returned" =>
            /\ res = responses[Len(responses)]
            /\ res \notin unauthenticated_status_codes
            /\ Valid(valid_res_predicate, res)
            /\ request_raised = ""

ReturnedAfterAuthentication ==
    /\ rpc = "returned"
    /\ tokens > 0
    /\ res = 302

====
